---------------------------- MODULE Spec2Model ----------------------------
(***************************************************************************)
(* A model of the tag resolver of Shahid-AI-Tagging (src/ai_analyzer.py,   *)
(* src/mind_map_parser.py, src/app.py).                                    *)
(*                                                                         *)
(* Text is modelled as a sequence of characters, each character a string.  *)
(* An ASCII character is the one-character string; an Arabic letter or the *)
(* bullet sign is a token such as "<alef>" that stands for one character.  *)
(* Regular expressions are modelled as syntax trees that mirror the        *)
(* patterns of the source and are run by a backtracking matcher with       *)
(* Python's priorities (leftmost alternative first, greedy or lazy         *)
(* repetition); scores are exact fractions <<num, den>>.                   *)
(***************************************************************************)
EXTENDS Integers, Sequences, FiniteSets, TLC

(***************************************************************************)
(* Characters and the str methods the code uses                            *)
(***************************************************************************)
UpperLetters == <<"A","B","C","D","E","F","G","H","I","J","K","L","M",
                  "N","O","P","Q","R","S","T","U","V","W","X","Y","Z">>
LowerLetters == <<"a","b","c","d","e","f","g","h","i","j","k","l","m",
                  "n","o","p","q","r","s","t","u","v","w","x","y","z">>
UpperSet == {UpperLetters[i] : i \in 1..26}
LowerSet == {LowerLetters[i] : i \in 1..26}
DigitSeq == <<"0","1","2","3","4","5","6","7","8","9">>
DigitSet == {DigitSeq[i] : i \in 1..10}

\* the 28 letters of arabic_chars in _is_arabic_text
ArabicChars == {"<alef>","<beh>","<teh>","<theh>","<jeem>","<hah>","<khah>",
                "<dal>","<thal>","<reh>","<zain>","<seen>","<sheen>","<sad>",
                "<dad>","<tah>","<zah>","<ain>","<ghain>","<feh>","<qaf>",
                "<kaf>","<lam>","<meem>","<noon>","<heh>","<waw>","<yeh>"}
\* Arabic letters outside that set (teh marbuta, alef maksura)
ArabicOther == {"<tehm>","<alefm>"}

WhiteSet == {" ", "\n", "\t", "\r"}
WordSet  == UpperSet \cup LowerSet \cup DigitSet \cup {"_"} \cup ArabicChars \cup ArabicOther

LowerMap == [c \in UpperSet |-> LowerLetters[CHOOSE i \in 1..26 : UpperLetters[i] = c]]
UpperMap == [c \in LowerSet |-> UpperLetters[CHOOSE i \in 1..26 : LowerLetters[i] = c]]
LowerC(c) == IF c \in UpperSet THEN LowerMap[c] ELSE c
UpperC(c) == IF c \in LowerSet THEN UpperMap[c] ELSE c

\* an assignment  name = value  followed by the code In that reads name
Let(value, In(_)) == In(value)

\* str.lower(), str.upper()
Lower(s) == [i \in 1..Len(s) |-> LowerC(s[i])]
Upper(s) == [i \in 1..Len(s) |-> UpperC(s[i])]

RECURSIVE LStripFrom(_, _)
LStripFrom(s, i) == IF i <= Len(s) /\ s[i] \in WhiteSet THEN LStripFrom(s, i + 1) ELSE i
RECURSIVE RStripTo(_, _)
RStripTo(s, j) == IF j >= 1 /\ s[j] \in WhiteSet THEN RStripTo(s, j - 1) ELSE j
\* str.strip()
Strip(s) == SubSeq(s, LStripFrom(s, 1), RStripTo(s, Len(s)))

\* a.startswith(p) at offset i (1-based)
MatchAt(p, s, i) == /\ i + Len(p) - 1 <= Len(s)
                    /\ \A k \in 1..Len(p) : s[i + k - 1] = p[k]
StartsWith(s, p) == MatchAt(p, s, 1)
EndsWith(s, p) == Len(p) <= Len(s) /\ MatchAt(p, s, Len(s) - Len(p) + 1)
\* p in s
Contains(p, s) == \E i \in 1..(Len(s) - Len(p) + 1) : MatchAt(p, s, i)
\* s.find(p) as a 1-based index, 0 when absent
Find(p, s) == IF Contains(p, s)
              THEN CHOOSE i \in 1..(Len(s) - Len(p) + 1) :
                     MatchAt(p, s, i) /\ \A j \in 1..(i - 1) : ~MatchAt(p, s, j)
              ELSE 0

SetMax(S) == CHOOSE x \in S : \A y \in S : y <= x
SetMin(S) == CHOOSE x \in S : \A y \in S : x <= y
\* the k-th smallest element of a set of numbers
NthOf(S, k) == CHOOSE x \in S : Cardinality({y \in S : y < x}) = k - 1

\* str.split(): the words between runs of whitespace
SplitWs(s) ==
  LET starts == {i \in 1..Len(s) : s[i] \notin WhiteSet /\ (i = 1 \/ s[i - 1] \in WhiteSet)}
      ends   == {i \in 1..Len(s) : s[i] \notin WhiteSet /\ (i = Len(s) \/ s[i + 1] \in WhiteSet)}
  IN  [k \in 1..Cardinality(starts) |-> SubSeq(s, NthOf(starts, k), NthOf(ends, k))]

RECURSIVE JoinFrom(_, _, _)
JoinFrom(parts, k, sep) ==
  IF k > Len(parts) THEN <<>>
  ELSE IF k = Len(parts) THEN parts[k]
  ELSE parts[k] \o sep \o JoinFrom(parts, k + 1, sep)
\* sep.join(parts)
Join(parts, sep) == JoinFrom(parts, 1, sep)

\* the pieces of s between the separators that start at the positions P, the
\* separator at p being W[p] characters wide; empty pieces kept
SplitCuts(s, P, W) ==
  LET n == Cardinality(P)
  IN  [k \in 1..(n + 1) |->
         SubSeq(s, IF k = 1 THEN 1 ELSE NthOf(P, k - 1) + W[NthOf(P, k - 1)],
                   IF k = n + 1 THEN Len(s) ELSE NthOf(P, k) - 1)]
\* s.split(c) for a one-character separator
SplitOn(s, c) ==
  LET P == {i \in 1..Len(s) : s[i] = c} IN SplitCuts(s, P, [i \in P |-> 1])

\* the elements of a sequence that satisfy a test, order kept
Remove(s, set) == SelectSeq(s, LAMBDA c : c \notin set)
InSeq(x, seq) == \E i \in 1..Len(seq) : seq[i] = x

(***************************************************************************)
(* Regular expressions (module re): syntax trees and a backtracking        *)
(* matcher.  Ends(r, s, i) is the sequence of the positions at which a     *)
(* match of r that starts at position i of s can end, in the order in      *)
(* which Python's matcher tries them.                                      *)
(***************************************************************************)
Inf == 0 - 1
RSet(S)    == [t |-> "set", s |-> S, neg |-> FALSE]
RNot(S)    == [t |-> "set", s |-> S, neg |-> TRUE]
RCat(rs)   == [t |-> "cat", rs |-> rs]
RAlt(rs)   == [t |-> "alt", rs |-> rs]
RRep(r, lo, hi)  == [t |-> "rep", r |-> r, lo |-> lo, hi |-> hi, greedy |-> TRUE]
RLazy(r, lo, hi) == [t |-> "rep", r |-> r, lo |-> lo, hi |-> hi, greedy |-> FALSE]
ROpt(r)    == RRep(r, 0, 1)
RStar(r)   == RRep(r, 0, Inf)
RPlus(r)   == RRep(r, 1, Inf)
RBol       == [t |-> "bol"]       \* ^ under re.MULTILINE
RBos       == [t |-> "bos"]       \* ^ without re.MULTILINE
REos       == [t |-> "eos"]       \* $ without re.MULTILINE
RWordB     == [t |-> "wordb"]     \* \b
RLook(r)   == [t |-> "look", r |-> r]   \* (?=r)
REmpty     == RCat(<<>>)
RDigit     == RSet(DigitSet)      \* \d
RSpace     == RSet(WhiteSet)      \* \s
RAny       == RNot({"\n"})        \* .
\* a literal, case-sensitive and under re.IGNORECASE
RLit(str)  == RCat([i \in 1..Len(str) |-> RSet({str[i]})])
RLitI(str) == RCat([i \in 1..Len(str) |-> RSet({LowerC(str[i]), UpperC(str[i])})])

IsWordAt(s, i) == i >= 1 /\ i <= Len(s) /\ s[i] \in WordSet

\* the length of the run of characters of the set r.r from position i on, at
\* most r.hi
RunLen(r, s, i) ==
  LET stop == CHOOSE k \in i..(Len(s) + 1) :
                /\ k = Len(s) + 1 \/ ((s[k] \in r.r.s) = r.r.neg)
                /\ \A j \in i..(k - 1) : (s[j] \in r.r.s) # r.r.neg
  IN  IF r.hi # Inf /\ stop - i > r.hi THEN r.hi ELSE stop - i
\* the repetition of a one-character set: the longest run first when greedy,
\* the shortest first when lazy
RunEnds(r, s, i) ==
  Let(RunLen(r, s, i), LAMBDA m :
    IF m < r.lo THEN <<>>
    ELSE [j \in 1..(m - r.lo + 1) |-> IF r.greedy THEN i + m - (j - 1) ELSE i + r.lo + (j - 1)])

RECURSIVE Ends(_, _, _)
RECURSIVE CatEnds(_, _, _, _)
RECURSIVE CatOver(_, _, _, _, _, _)
RECURSIVE AltEnds(_, _, _, _)
RECURSIVE RepEnds(_, _, _, _)
RECURSIVE RepOver(_, _, _, _, _)

Ends(r, s, i) ==
  CASE r.t = "set"   -> IF i <= Len(s) /\ ((s[i] \in r.s) # r.neg) THEN <<i + 1>> ELSE <<>>
    [] r.t = "cat"   -> CatEnds(r.rs, 1, s, i)
    [] r.t = "alt"   -> AltEnds(r.rs, 1, s, i)
    [] r.t = "rep"   -> IF r.r.t = "set" THEN RunEnds(r, s, i) ELSE RepEnds(r, s, i, 0)
    [] r.t = "bol"   -> IF i = 1 \/ s[i - 1] = "\n" THEN <<i>> ELSE <<>>
    [] r.t = "bos"   -> IF i = 1 THEN <<i>> ELSE <<>>
    [] r.t = "eos"   -> IF i = Len(s) + 1 \/ (i = Len(s) /\ s[i] = "\n") THEN <<i>> ELSE <<>>
    [] r.t = "wordb" -> IF IsWordAt(s, i - 1) # IsWordAt(s, i) THEN <<i>> ELSE <<>>
    [] r.t = "look"  -> IF Ends(r.r, s, i) # <<>> THEN <<i>> ELSE <<>>

CatEnds(rs, k, s, i) ==
  IF k > Len(rs) THEN <<i>>
  ELSE Let(Ends(rs[k], s, i), LAMBDA es :
         IF Len(es) = 0 THEN <<>>
         ELSE IF Len(es) = 1 THEN CatEnds(rs, k + 1, s, es[1])
         ELSE CatOver(es, 1, Len(es), rs, k, s))
\* the ends of rs[k+1..] from each of es[lo..hi], in order
CatOver(es, lo, hi, rs, k, s) ==
  IF lo > hi THEN <<>>
  ELSE IF lo = hi THEN CatEnds(rs, k + 1, s, es[lo])
  ELSE LET mid == (lo + hi) \div 2
       IN  CatOver(es, lo, mid, rs, k, s) \o CatOver(es, mid + 1, hi, rs, k, s)
AltEnds(rs, k, s, i) ==
  IF k > Len(rs) THEN <<>> ELSE Ends(rs[k], s, i) \o AltEnds(rs, k + 1, s, i)
RepEnds(r, s, i, n) ==
  Let(IF n >= r.lo THEN <<i>> ELSE <<>>, LAMBDA stop :
  Let(IF r.hi # Inf /\ n >= r.hi THEN <<>>
      ELSE RepOver(SelectSeq(Ends(r.r, s, i), LAMBDA e : e > i), 1, r, s, n),
      LAMBDA more :
  IF r.greedy THEN more \o stop ELSE stop \o more))
RepOver(es, j, r, s, n) ==
  IF j > Len(es) THEN <<>>
  ELSE RepEnds(r, s, es[j], n + 1) \o RepOver(es, j + 1, r, s, n)

\* A pattern with one capturing group is <<before, group, after>>; a pattern
\* with none is <<REmpty, whole, REmpty>>, for which findall yields the match.
Pat(pre, grp, post) == <<pre, grp, post>>
Whole(r) == <<REmpty, r, REmpty>>
NoMatch == [ok |-> FALSE]

RECURSIVE GrpOver(_, _, _, _, _, _, _)
\* the first of the group's ends bs[lo..hi] after which the rest of the
\* pattern matches
GrpOver(p, s, i, a, bs, lo, hi) ==
  IF lo > hi THEN NoMatch
  ELSE IF lo = hi
  THEN Let(Ends(p[3], s, bs[lo]), LAMBDA es :
         IF es # <<>> THEN [ok |-> TRUE, from |-> i, a |-> a, b |-> bs[lo], to |-> es[1]]
         ELSE NoMatch)
  ELSE Let(GrpOver(p, s, i, a, bs, lo, (lo + hi) \div 2), LAMBDA m :
         IF m.ok THEN m ELSE GrpOver(p, s, i, a, bs, (lo + hi) \div 2 + 1, hi))
RECURSIVE PreOver(_, _, _, _, _, _)
\* the first of the ends as[lo..hi] of the part before the group from which
\* the rest matches
PreOver(p, s, i, as, lo, hi) ==
  IF lo > hi THEN NoMatch
  ELSE IF lo = hi
  THEN Let(Ends(p[2], s, as[lo]), LAMBDA bs : GrpOver(p, s, i, as[lo], bs, 1, Len(bs)))
  ELSE Let(PreOver(p, s, i, as, lo, (lo + hi) \div 2), LAMBDA m :
         IF m.ok THEN m ELSE PreOver(p, s, i, as, (lo + hi) \div 2 + 1, hi))
\* the match of pattern p that starts at position i: the group is s[a..b-1],
\* the match s[from..to-1]
MatchFrom(p, s, i) ==
  Let(Ends(p[1], s, i), LAMBDA as : PreOver(p, s, i, as, 1, Len(as)))

RECURSIVE Nullable(_)
\* r can match the empty string
Nullable(r) ==
  CASE r.t = "set" -> FALSE
    [] r.t = "cat" -> \A k \in 1..Len(r.rs) : Nullable(r.rs[k])
    [] r.t = "alt" -> \E k \in 1..Len(r.rs) : Nullable(r.rs[k])
    [] r.t = "rep" -> r.lo = 0 \/ Nullable(r.r)
    [] OTHER -> TRUE
AnyChar == "<any>"
RECURSIVE FirstChars(_)
RECURSIVE FirstOfCat(_, _)
\* a set that holds the first character of every non-empty match of r;
\* AnyChar in it stands for every character
FirstChars(r) ==
  CASE r.t = "set" -> IF r.neg THEN {AnyChar} ELSE r.s
    [] r.t = "cat" -> FirstOfCat(r.rs, 1)
    [] r.t = "alt" -> UNION {FirstChars(r.rs[k]) : k \in 1..Len(r.rs)}
    [] r.t = "rep" -> FirstChars(r.r)
    [] OTHER -> {}
FirstOfCat(rs, k) ==
  IF k > Len(rs) THEN {}
  ELSE FirstChars(rs[k]) \cup (IF Nullable(rs[k]) THEN FirstOfCat(rs, k + 1) ELSE {})
\* the positions of s at which a match of p can start
Starts(p, s) ==
  LET whole == RCat(<<p[1], p[2], p[3]>>)
      F == FirstChars(whole)
  IN  IF Nullable(whole) \/ AnyChar \in F THEN 1..(Len(s) + 1)
      ELSE {k \in 1..Len(s) : s[k] \in F}

RECURSIVE SearchIn(_, _, _, _, _)
\* the match that starts leftmost among the positions lo..hi
SearchIn(p, s, C, lo, hi) ==
  IF lo > hi THEN NoMatch
  ELSE IF lo = hi THEN (IF lo \in C THEN MatchFrom(p, s, lo) ELSE NoMatch)
  ELSE Let(SearchIn(p, s, C, lo, (lo + hi) \div 2), LAMBDA m :
         IF m.ok THEN m ELSE SearchIn(p, s, C, (lo + hi) \div 2 + 1, hi))
RECURSIVE FindAllFrom(_, _, _, _)
FindAllFrom(p, s, C, i) ==
  Let(SearchIn(p, s, C, i, Len(s) + 1), LAMBDA m :
    IF ~m.ok THEN <<>>
    ELSE <<SubSeq(s, m.a, m.b - 1)>>
           \o FindAllFrom(p, s, C, IF m.to > m.from THEN m.to ELSE m.from + 1))
\* re.findall(p, s): the groups of the non-overlapping matches, left to right
FindAll(p, s) == FindAllFrom(p, s, Starts(p, s), 1)
\* re.search(p, s): the leftmost match
Search(p, s) == SearchIn(p, s, Starts(p, s), 1, Len(s) + 1)
\* re.sub(p, '', s, count=1) for a pattern that matches at most once
SubFirst(p, s) ==
  Let(Search(p, s), LAMBDA m :
    IF m.ok THEN SubSeq(s, 1, m.from - 1) \o SubSeq(s, m.to, Len(s)) ELSE s)

(***************************************************************************)
(* Numbers and scores                                                      *)
(***************************************************************************)
\* None and '' are both falsy and every caller tests truthiness only
None == <<>>

\* a score is a fraction <<num, den>>, den > 0: the float the code computes
Zero == <<0, 1>>
One  == <<1, 1>>
Frac(n, d) == <<n, d>>
Less(x, y) == x[1] * y[2] < y[1] * x[2]
Leq(x, y)  == x[1] * y[2] <= y[1] * x[2]
SameScore(x, y) == x[1] * y[2] = y[1] * x[2]
MaxScore(x, y) == IF Less(x, y) THEN y ELSE x

DigitVal(c) == (CHOOSE i \in 1..10 : DigitSeq[i] = c) - 1
RECURSIVE IntOf(_, _, _)
IntOf(s, i, acc) ==
  IF i > Len(s) THEN acc
  ELSE IF s[i] = "_" THEN IntOf(s, i + 1, acc)
  ELSE IntOf(s, i + 1, acc * 10 + DigitVal(s[i]))
\* int(s) succeeds: decimal digits, single underscores between digits allowed
IsIntLiteral(s) ==
  /\ Len(s) >= 1
  /\ \A i \in 1..Len(s) : s[i] \in DigitSet \cup {"_"}
  /\ s[1] # "_" /\ s[Len(s)] # "_"
  /\ \A i \in 1..(Len(s) - 1) : ~(s[i] = "_" /\ s[i + 1] = "_")
RECURSIVE DigitsOf(_)
DigitsOf(n) == IF n < 10 THEN <<DigitSeq[n + 1]>>
               ELSE Append(DigitsOf(n \div 10), DigitSeq[(n % 10) + 1])
\* s.zfill(w) for a string without sign
ZFill(s, w) == [i \in 1..(IF Len(s) >= w THEN 0 ELSE w - Len(s)) |-> "0"] \o s

(***************************************************************************)
(* difflib.SequenceMatcher(None, a, b).ratio()                             *)
(***************************************************************************)
RECURSIVE CommonLen(_, _, _, _, _, _)
CommonLen(a, b, i, j, ahi, bhi) ==
  IF i < ahi /\ j < bhi /\ a[i] = b[j] THEN 1 + CommonLen(a, b, i + 1, j + 1, ahi, bhi) ELSE 0


\* find_longest_match on a[alo..ahi-1], b[blo..bhi-1]: the longest block,
\* of those the one starting earliest in a, of those the earliest in b
LongestMatch(a, b, alo, ahi, blo, bhi) ==
  LET starts == {<<i, j>> \in (alo..(ahi - 1)) \X (blo..(bhi - 1)) : a[i] = b[j]}
  IN  IF starts = {} THEN [i |-> alo, j |-> blo, k |-> 0]
      ELSE LET len == [p \in starts |-> CommonLen(a, b, p[1], p[2], ahi, bhi)]
               k   == SetMax({len[p] : p \in starts})
               bi  == SetMin({p[1] : p \in {q \in starts : len[q] = k}})
               bj  == SetMin({p[2] : p \in {q \in starts : len[q] = k /\ q[1] = bi}})
           IN  [i |-> bi, j |-> bj, k |-> k]

RECURSIVE MatchingChars(_, _, _, _, _, _)
\* the total size of get_matching_blocks()
MatchingChars(a, b, alo, ahi, blo, bhi) ==
  IF alo >= ahi \/ blo >= bhi THEN 0
  ELSE LET m == LongestMatch(a, b, alo, ahi, blo, bhi)
       IN  IF m.k = 0 THEN 0
           ELSE m.k + MatchingChars(a, b, alo, m.i, blo, m.j)
                    + MatchingChars(a, b, m.i + m.k, ahi, m.j + m.k, bhi)

Ratio(a, b) ==
  IF Len(a) + Len(b) = 0 THEN One
  ELSE Frac(2 * MatchingChars(a, b, 1, Len(a) + 1, 1, Len(b) + 1), Len(a) + Len(b))

(***************************************************************************)
(* MindMapParser.get_all_tags and the catalog                              *)
(***************************************************************************)
\* A record of MindMapParser.tags (the '_sheet_' entries left out): has_id
\* tells whether the key 'tag_id' is present (organized format).
TagRec(id, name) == [has_id |-> TRUE, tag_id |-> id, tag_name |-> name]
LegacyRec(name)  == [has_id |-> FALSE, tag_id |-> <<>>, tag_name |-> name]

RECURSIVE GetAllTagsFrom(_, _, _)
GetAllTagsFrom(pt, k, acc) ==
  IF k > Len(pt) THEN acc
  ELSE IF \E j \in 1..Len(acc) : acc[j].tag_name = pt[k].tag_name
       THEN GetAllTagsFrom(pt, k + 1, acc)
       ELSE GetAllTagsFrom(pt, k + 1, Append(acc, pt[k]))
\* the values of the dict get_all_tags returns, in insertion order: the first
\* record of each tag_name
GetAllTags(pt) == GetAllTagsFrom(pt, 1, <<>>)
TagNames(pt) == LET all == GetAllTags(pt) IN [k \in 1..Len(all) |-> all[k].tag_name]

(***************************************************************************)
(* AIAnalyzer: names                                                       *)
(***************************************************************************)
\* r'^(tag|tags?):\s*' with re.IGNORECASE
PatTagPrefix == Whole(RCat(<<RBos,
                  RAlt(<<RLitI(<<"t","a","g">>),
                         RCat(<<RLitI(<<"t","a","g">>), ROpt(RLitI(<<"s">>))>>)>>),
                  RSet({":"}), RStar(RSpace)>>))
\* r'\s*\(.*?\)\s*$'
PatTrailingParen == Whole(RCat(<<RStar(RSpace), RSet({"("}), RLazy(RAny, 0, Inf),
                                 RSet({")"}), RStar(RSpace), REos>>))

NormalizeTagName(tag_name) ==
  IF tag_name = <<>> THEN <<>>
  ELSE Let(Join(SplitWs(tag_name), <<" ">>), LAMBDA n1 :
       Let(MatchFrom(PatTagPrefix, n1, 1), LAMBDA m :
       Let(IF m.ok THEN SubSeq(n1, m.to, Len(n1)) ELSE n1, LAMBDA n2 :
       Let(SubFirst(PatTrailingParen, n2), LAMBDA n3 :
       Strip(n3)))))

NormLower(s) == Lower(NormalizeTagName(s))

\* the loop with  similarity >= best_score : the last of the best names wins
RECURSIVE FuzzyLoopLastWins(_, _, _, _, _)
FuzzyLoopLastWins(ne, available, k, best_match, best_score) ==
  IF k > Len(available) THEN <<best_match, best_score>>
  ELSE Let(NormLower(available[k]), LAMBDA nt :
       Let(IF ne = nt THEN One ELSE Ratio(ne, nt), LAMBDA sim1 :
       Let(IF Contains(ne, nt) \/ Contains(nt, ne)
           THEN MaxScore(sim1, Frac(9, 10)) ELSE sim1,
           LAMBDA sim2 :
       IF Leq(best_score, sim2)
       THEN FuzzyLoopLastWins(ne, available, k + 1, available[k], sim2)
       ELSE FuzzyLoopLastWins(ne, available, k + 1, best_match, best_score))))

RECURSIVE FuzzyLoop(_, _, _, _, _)
FuzzyLoop(ne, available, k, best_match, best_score) ==
  IF k > Len(available) THEN <<best_match, best_score>>
  ELSE Let(NormLower(available[k]), LAMBDA nt :
       Let(IF ne = nt THEN One ELSE Ratio(ne, nt), LAMBDA sim1 :
       Let(IF Contains(ne, nt) \/ Contains(nt, ne)
           THEN MaxScore(sim1, Frac(9, 10)) ELSE sim1,
           LAMBDA sim2 :
       IF Less(best_score, sim2)
       THEN FuzzyLoop(ne, available, k + 1, available[k], sim2)
       ELSE FuzzyLoop(ne, available, k + 1, best_match, best_score))))

\* returns <<match or None, score>>
FuzzyMatchTag(extracted_tag, available_tags, threshold) ==
  IF extracted_tag = <<>> \/ available_tags = <<>> THEN <<None, Zero>>
  ELSE Let(FuzzyLoop(NormLower(extracted_tag), available_tags, 1, None, Zero), LAMBDA r :
           IF Leq(threshold, r[2]) THEN r ELSE <<None, r[2]>>)


(***************************************************************************)
(* AIAnalyzer._extract_tags_from_response                                  *)
(***************************************************************************)
StrTag == <<"t","a","g">>
StrRecommended == <<"r","e","c","o","m","m","e","n","d","e","d">>
\* (?:tag|tags)   and   (?:tag|tags?)
RTagOrTags  == RAlt(<<RLitI(StrTag), RLitI(StrTag \o <<"s">>)>>)
RTagOrTagsQ == RAlt(<<RLitI(StrTag), RCat(<<RLitI(StrTag), ROpt(RLitI(<<"s">>))>>)>>)
\* (?:^|\n)
RLineStart == RAlt(<<RBol, RSet({"\n"})>>)

\* r'(?:recommended\s+tag(?:s)?|tag(?:s)?\s+recommended)[:\-]?\s*(?:\[|\()?([^\]]+?)(?:\]|\))?'
Pattern1 ==
  Pat(RCat(<<RAlt(<<RCat(<<RLitI(StrRecommended), RPlus(RSpace), RLitI(StrTag),
                           ROpt(RLitI(<<"s">>))>>),
                    RCat(<<RLitI(StrTag), ROpt(RLitI(<<"s">>)), RPlus(RSpace),
                           RLitI(StrRecommended)>>)>>),
             ROpt(RSet({":", "-"})), RStar(RSpace),
             ROpt(RAlt(<<RSet({"["}), RSet({"("})>>))>>),
      RLazy(RNot({"]"}), 1, Inf),
      ROpt(RAlt(<<RSet({"]"}), RSet({")"})>>)))
\* r'(?:^|\n)\s*(?:tag|tags)[:\-]\s*([^\n]+)'
Pattern2 ==
  Pat(RCat(<<RLineStart, RStar(RSpace), RTagOrTags, RSet({":", "-"}), RStar(RSpace)>>),
      RPlus(RNot({"\n"})),
      REmpty)
\* r'(?:^|\n)\s*(?:[-*•]|\d+[\.\)])\s*(?:tag|tags?)?[:\-]?\s*([^\n]+)'
Pattern3 ==
  Pat(RCat(<<RLineStart, RStar(RSpace),
             RAlt(<<RSet({"-", "*", "<bullet>"}),
                    RCat(<<RPlus(RDigit), RSet({".", ")"})>>)>>),
             RStar(RSpace), ROpt(RTagOrTagsQ), ROpt(RSet({":", "-"})), RStar(RSpace)>>),
      RPlus(RNot({"\n"})),
      REmpty)
\* r'"([^"]{10,})"'
Pattern4 == Pat(RSet({"\""}), RRep(RNot({"\""}), 10, Inf), RSet({"\""}))

\* [t.strip() for t in re.split(r'[,;]|and', match)]
SplitList(s) ==
  LET P  == {i \in 1..Len(s) : s[i] \in {",", ";"} \/ MatchAt(<<"a","n","d">>, s, i)}
      ps == SplitCuts(s, P, [i \in P |-> IF s[i] \in {",", ";"} THEN 1 ELSE 3])
  IN  [k \in 1..Len(ps) |-> Strip(ps[k])]

\* re.sub(r'[\[\]()]', '', match)
NoBrackets(s) == Remove(s, {"[", "]", "(", ")"})

RECURSIVE FlatMapSeq(_, _, _)
\* the concatenation of Op(ms[k]) over k
FlatMapSeq(Op(_), ms, k) ==
  IF k > Len(ms) THEN <<>> ELSE Op(ms[k]) \o FlatMapSeq(Op, ms, k + 1)

FromPattern1(m) == SelectSeq(SplitList(m), LAMBDA x : x # <<>>)
FromPattern2(m) == SelectSeq(SplitList(NoBrackets(m)), LAMBDA x : x # <<>> /\ Len(x) > 3)
FromPattern3(m) ==
  LET b == Strip(NoBrackets(m))
  IN  IF Len(b) > 5 /\ ~StartsWith(Lower(b), <<"t","h","e">>)
                    /\ ~StartsWith(Lower(b), <<"t","h","i","s">>)
                    /\ ~StartsWith(Lower(b), <<"t","h","e","s","e">>)
      THEN <<b>> ELSE <<>>
FromPattern4(m) ==
  LET b == Strip(m)
  IN  IF Len(SplitWs(m)) <= 15 /\ ~EndsWith(b, <<".">>) /\ ~EndsWith(b, <<"!">>)
                               /\ ~EndsWith(b, <<"?">>)
      THEN <<b>> ELSE <<>>

RECURSIVE UniqueByNorm(_, _, _, _)
\* "Remove duplicates while preserving order"
UniqueByNorm(ts, k, seen, acc) ==
  IF k > Len(ts) THEN acc
  ELSE Let(NormLower(ts[k]), LAMBDA n :
         IF n # <<>> /\ n \notin seen
         THEN UniqueByNorm(ts, k + 1, seen \cup {n}, Append(acc, ts[k]))
         ELSE UniqueByNorm(ts, k + 1, seen, acc))

ExtractTagsFromResponse(response_text) ==
  LET extracted_tags ==
           FlatMapSeq(FromPattern1, FindAll(Pattern1, response_text), 1)
        \o FlatMapSeq(FromPattern2, FindAll(Pattern2, response_text), 1)
        \o FlatMapSeq(FromPattern3, FindAll(Pattern3, response_text), 1)
        \o FlatMapSeq(FromPattern4, FindAll(Pattern4, response_text), 1)
  IN  UniqueByNorm(extracted_tags, 1, {}, <<>>)

(***************************************************************************)
(* AIAnalyzer: tag ids                                                     *)
(***************************************************************************)
\* a ValueError branch that gives up
NormalizeTagIdFallbackNone(number_part) == None
\* the ValueError branch of _normalize_tag_id
NormalizeTagIdFallback(number_part) == <<"T">> \o ZFill(number_part, 4)

\* a normalizer that leaves the digits as they are written
NormalizeTagIdUnpadded(tag_id) == Upper(tag_id)
NormalizeTagId(tag_id) ==
  IF tag_id = <<>> THEN None
  ELSE LET cleaned == SelectSeq(Upper(tag_id), LAMBDA c : c \in WordSet)
           number_part == IF StartsWith(cleaned, <<"T">>)
                          THEN SubSeq(cleaned, 2, Len(cleaned)) ELSE cleaned
       IN  IF number_part = <<>> THEN <<"T","0","0","0","0">>
           ELSE IF IsIntLiteral(number_part)
                THEN <<"T">> \o ZFill(DigitsOf(IntOf(number_part, 1, 0)), 4)
                ELSE NormalizeTagIdFallback(number_part)

RECURSIVE GetTagByIdLoop(_, _, _)
GetTagByIdLoop(all, k, tag_id_normalized) ==
  IF k > Len(all) THEN None
  ELSE IF all[k].has_id /\ tag_id_normalized = NormalizeTagId(Strip(all[k].tag_id))
       THEN all[k].tag_name
       ELSE GetTagByIdLoop(all, k + 1, tag_id_normalized)

GetTagById(pt, tag_id) ==
  Let(GetAllTags(pt), LAMBDA all :
  Let(NormalizeTagId(tag_id), LAMBDA tag_id_normalized :
  IF all = <<>> \/ tag_id_normalized = None THEN None
  ELSE GetTagByIdLoop(all, 1, tag_id_normalized)))

\* T\d{1,4} under re.IGNORECASE
RTd14 == RCat(<<RLitI(<<"T">>), RRep(RDigit, 1, 4)>>)
\* the list `patterns` of _extract_tag_ids_from_text
IdPatterns == <<
  \* r'\bT\d{4}\b'
  Whole(RCat(<<RWordB, RLitI(<<"T">>), RRep(RDigit, 4, 4), RWordB>>)),
  \* r'\bT\d{1,3}\b'
  Whole(RCat(<<RWordB, RLitI(<<"T">>), RRep(RDigit, 1, 3), RWordB>>)),
  \* r'\btag\s+(?:id|#)?\s*[:\-]?\s*(T\d{1,4})'
  Pat(RCat(<<RWordB, RLitI(StrTag), RPlus(RSpace),
             ROpt(RAlt(<<RLitI(<<"i","d">>), RSet({"#"})>>)), RStar(RSpace),
             ROpt(RSet({":", "-"})), RStar(RSpace)>>), RTd14, REmpty),
  \* r'(?:tag|tags?)\s+(T\d{1,4})'
  Pat(RCat(<<RTagOrTagsQ, RPlus(RSpace)>>), RTd14, REmpty),
  \* r'\[(T\d{1,4})\]'
  Pat(RSet({"["}), RTd14, RSet({"]"})),
  \* r'\(T\d{1,4}\)'
  Whole(RCat(<<RSet({"("}), RTd14, RSet({")"})>>)),
  \* r'T\d{1,4}(?=\s|,|;|\.|$)'
  Whole(RCat(<<RTd14, RLook(RAlt(<<RSpace, RSet({","}), RSet({";"}), RSet({"."}), REos>>))>>))
  >>

\* the loop over matches without the test  normalized_id not in found_ids
RECURSIVE AddIdsRepeated(_, _, _)
AddIdsRepeated(ms, k, found_ids) ==
  IF k > Len(ms) THEN found_ids
  ELSE Let(NormalizeTagId(ms[k]), LAMBDA normalized_id :
         IF ms[k] # <<>> /\ normalized_id # None
         THEN AddIdsRepeated(ms, k + 1, Append(found_ids, normalized_id))
         ELSE AddIdsRepeated(ms, k + 1, found_ids))
RECURSIVE AddIds(_, _, _)
AddIds(ms, k, found_ids) ==
  IF k > Len(ms) THEN found_ids
  ELSE Let(NormalizeTagId(ms[k]), LAMBDA normalized_id :
         IF ms[k] # <<>> /\ normalized_id # None /\ ~InSeq(normalized_id, found_ids)
         THEN AddIds(ms, k + 1, Append(found_ids, normalized_id))
         ELSE AddIds(ms, k + 1, found_ids))
RECURSIVE IdPatternLoop(_, _, _)
IdPatternLoop(text, p, found_ids) ==
  IF p > Len(IdPatterns) THEN found_ids
  ELSE IdPatternLoop(text, p + 1, AddIds(FindAll(IdPatterns[p], text), 1, found_ids))

ExtractTagIdsFromText(text) == IdPatternLoop(text, 1, <<>>)

(***************************************************************************)
(* AIAnalyzer._validate_and_match_tags                                     *)
(***************************************************************************)
\* r'^T\d{1,4}$'
PatIdOnly == Whole(RCat(<<RBos, RSet({"T"}), RRep(RDigit, 1, 4), REos>>))

RECURSIVE FirstExact(_, _, _)
FirstExact(names, k, normalized_extracted) ==
  IF k > Len(names) THEN None
  ELSE IF NormLower(names[k]) = normalized_extracted THEN names[k]
  ELSE FirstExact(names, k + 1, normalized_extracted)

RECURSIVE InsertByScore(_, _, _)
InsertByScore(sorted, x, sc) ==
  IF sorted = <<>> THEN <<x>>
  ELSE IF Less(sc[sorted[Len(sorted)]], sc[x])
       THEN Append(InsertByScore(SubSeq(sorted, 1, Len(sorted) - 1), x, sc), sorted[Len(sorted)])
       ELSE Append(sorted, x)
RECURSIVE SortByScoreFrom(_, _, _, _)
SortByScoreFrom(ts, k, sc, acc) ==
  IF k > Len(ts) THEN acc ELSE SortByScoreFrom(ts, k + 1, sc, InsertByScore(acc, ts[k], sc))
\* list.sort(key=score, reverse=True): stable, highest score first
SortByScore(ts, sc) == SortByScoreFrom(ts, 1, sc, <<>>)

\* one turn of the loop over extracted_tags; st = [tags, scores]
ValidateOne(pt, names, extracted_tag, st) ==
  LET clean == Upper(Strip(extracted_tag))
      add(name, score) ==
        IF InSeq(name, st.tags) THEN st
        ELSE [tags |-> Append(st.tags, name),
              scores |-> [n \in DOMAIN st.scores \cup {name} |->
                            IF n = name THEN score ELSE st.scores[n]]]
  IN  IF extracted_tag = <<>> \/ Len(Strip(extracted_tag)) < 3 THEN st
      ELSE IF MatchFrom(PatIdOnly, clean, 1).ok
      THEN Let(GetTagById(pt, NormalizeTagId(clean)), LAMBDA tag_name :
             IF tag_name # None THEN add(tag_name, One) ELSE st)
      ELSE Let(FirstExact(names, 1, NormLower(extracted_tag)), LAMBDA exact_match :
             IF exact_match # None THEN add(exact_match, One)
             ELSE Let(FuzzyMatchTag(extracted_tag, names, Frac(75, 100)), LAMBDA fz :
                    IF fz[1] # None THEN add(fz[1], fz[2]) ELSE st))

RECURSIVE ValidateLoop(_, _, _, _, _)
ValidateLoop(pt, names, extracted_tags, k, st) ==
  IF k > Len(extracted_tags) THEN st
  ELSE ValidateLoop(pt, names, extracted_tags, k + 1,
                    ValidateOne(pt, names, extracted_tags[k], st))

\* the validated tags with their scores, before the sort
ValidateScored(pt, extracted_tags) ==
  ValidateLoop(pt, TagNames(pt), extracted_tags, 1, [tags |-> <<>>, scores |-> <<>>])

ValidateAndMatchTags(pt, extracted_tags) ==
  IF GetAllTags(pt) = <<>> THEN <<>>
  ELSE Let(ValidateScored(pt, extracted_tags), LAMBDA st :
           SortByScore(st.tags, st.scores))


(***************************************************************************)
(* AIAnalyzer._extract_tags_from_reasoning                                 *)
(***************************************************************************)
\* ['""]   and   ([^'""]{10,})
RQuote == RSet({"'", "\""})
RQuoted10 == RRep(RNot({"'", "\""}), 10, Inf)
\* (?:matching|matches|match|aligns?|corresponds?)
RMatching == RAlt(<<RLitI(<<"m","a","t","c","h","i","n","g">>), RLitI(<<"m","a","t","c","h","e","s">>), RLitI(<<"m","a","t","c","h">>),
                    RCat(<<RLitI(<<"a","l","i","g","n">>), ROpt(RLitI(<<"s">>))>>),
                    RCat(<<RLitI(<<"c","o","r","r","e","s","p","o","n","d">>), ROpt(RLitI(<<"s">>))>>)>>)
\* tag_keyword_patterns
TagKeywordPatterns == <<
  \* r"(?:tag|tags)\s+['""]([^'""]{10,})['""]"
  Pat(RCat(<<RTagOrTags, RPlus(RSpace), RQuote>>), RQuoted10, RQuote),
  \* r"['""]([^'""]{10,})['""]\s+(?:tag|tags)"
  Pat(RQuote, RQuoted10, RCat(<<RQuote, RPlus(RSpace), RTagOrTags>>)),
  \* r"(?:tag|tags)\s+(?:named|called|is)\s+['""]([^'""]{10,})['""]"
  Pat(RCat(<<RTagOrTags, RPlus(RSpace),
             RAlt(<<RLitI(<<"n","a","m","e","d">>), RLitI(<<"c","a","l","l","e","d">>), RLitI(<<"i","s">>)>>),
             RPlus(RSpace), RQuote>>), RQuoted10, RQuote)
  >>
\* matching_patterns
MatchingPatterns == <<
  \* r"(?:matching|...)\s+(?:the\s+)?tag\s+['""]([^'""]{10,})['""]"
  Pat(RCat(<<RMatching, RPlus(RSpace), ROpt(RCat(<<RLitI(<<"t","h","e">>), RPlus(RSpace)>>)),
             RLitI(StrTag), RPlus(RSpace), RQuote>>), RQuoted10, RQuote),
  \* r"(?:matching|...)\s+['""]([^'""]{10,})['""]"
  Pat(RCat(<<RMatching, RPlus(RSpace), RQuote>>), RQuoted10, RQuote)
  >>

\* the state of the function: found_tags (a list), found_normalized (a set)
Found(tags, norm) == [tags |-> tags, norm |-> norm]

RECURSIVE ReasoningIds(_, _, _, _)
\* PRIORITY 1: tag ids
ReasoningIds(pt, tag_ids, k, f) ==
  IF k > Len(tag_ids) THEN f
  ELSE Let(GetTagById(pt, tag_ids[k]), LAMBDA tag_name :
       Let(NormLower(tag_name), LAMBDA normalized :
         IF tag_name # None /\ normalized \notin f.norm
         THEN ReasoningIds(pt, tag_ids, k + 1,
                           Found(Append(f.tags, tag_name), f.norm \cup {normalized}))
         ELSE ReasoningIds(pt, tag_ids, k + 1, f)))

RECURSIVE FirstExactNew(_, _, _, _)
\* the first tag whose normalized name is the match and which is not yet found
FirstExactNew(tag_names, k, normalized_match, found_tags) ==
  IF k > Len(tag_names) THEN None
  ELSE IF NormLower(tag_names[k]) = normalized_match /\ ~InSeq(tag_names[k], found_tags)
       THEN tag_names[k]
       ELSE FirstExactNew(tag_names, k + 1, normalized_match, found_tags)

\* Method 1, one quoted match
ReasoningQuoted(tag_names, m, f) ==
  Let(Strip(m), LAMBDA match :
  Let(NormLower(match), LAMBDA normalized_match :
  Let(FirstExactNew(tag_names, 1, normalized_match, f.tags), LAMBDA exact :
  Let(FuzzyMatchTag(match, tag_names, Frac(75, 100)), LAMBDA fz :
  IF Len(match) < 10 \/ normalized_match \in f.norm THEN f
  ELSE IF exact # None
       THEN Found(Append(f.tags, exact), f.norm \cup {normalized_match})
       ELSE Let(NormLower(fz[1]), LAMBDA normalized_fuzzy :
              IF fz[1] # None /\ normalized_fuzzy \notin f.norm
              THEN Found(Append(f.tags, fz[1]), f.norm \cup {normalized_fuzzy})
              ELSE f)))))

\* Methods 2 and 3, one match of a keyword pattern
ReasoningKeyword(tag_names, m, f) ==
  Let(Strip(m), LAMBDA match :
  Let(FuzzyMatchTag(match, tag_names, Frac(75, 100)), LAMBDA fz :
  IF NormLower(match) \in f.norm THEN f
  ELSE IF fz[1] # None
       THEN Found(Append(f.tags, fz[1]), f.norm \cup {NormLower(fz[1])})
       ELSE f))

RECURSIVE FoldMatches(_, _, _, _, _)
FoldMatches(Op(_, _, _), tag_names, ms, k, f) ==
  IF k > Len(ms) THEN f
  ELSE FoldMatches(Op, tag_names, ms, k + 1, Op(tag_names, ms[k], f))
RECURSIVE FoldPatterns(_, _, _, _, _)
FoldPatterns(pats, p, text, tag_names, f) ==
  IF p > Len(pats) THEN f
  ELSE FoldPatterns(pats, p + 1, text, tag_names,
                    FoldMatches(ReasoningKeyword, tag_names, FindAll(pats[p], text), 1, f))

\* Method 4 without its tests: every catalog name not yet found is accepted
ReasoningDirectAlways(tag, reasoning_lower, f) ==
  IF NormLower(tag) \in f.norm THEN f
  ELSE Found(Append(f.tags, tag), f.norm \cup {NormLower(tag)})
\* Method 4, one catalog name
ReasoningDirect(tag, reasoning_lower, f) ==
  Let(NormLower(tag), LAMBDA normalized_tag :
  Let(SplitWs(normalized_tag), LAMBDA tag_words :
  Let(Found(Append(f.tags, tag), f.norm \cup {normalized_tag}), LAMBDA add :
  LET words_found == Cardinality({w \in 1..Len(tag_words) :
                        Len(tag_words[w]) > 3 /\ Contains(tag_words[w], reasoning_lower)})
      score == FuzzyMatchTag(tag, <<tag>>, Zero)[2]
  IN  IF normalized_tag \in f.norm THEN f
      ELSE IF Len(tag_words) >= 2
           THEN (IF 10 * words_found >= 7 * Len(tag_words) /\ Less(Frac(6, 10), score)
                 THEN add ELSE f)
           ELSE (IF Search(Whole(RCat(<<RWordB, RLit(normalized_tag), RWordB>>)),
                           reasoning_lower).ok
                 THEN add ELSE f))))
RECURSIVE ReasoningDirectLoop(_, _, _, _)
ReasoningDirectLoop(tag_names, k, reasoning_lower, f) ==
  IF k > Len(tag_names) THEN f
  ELSE ReasoningDirectLoop(tag_names, k + 1, reasoning_lower,
                           ReasoningDirect(tag_names[k], reasoning_lower, f))

ExtractTagsFromReasoning(pt, reasoning_text) ==
  Let(ReasoningIds(pt, ExtractTagIdsFromText(reasoning_text), 1, Found(<<>>, {})),
      LAMBDA f0 :
  Let(TagNames(pt), LAMBDA tag_names :
  Let(FoldMatches(ReasoningQuoted, tag_names, FindAll(Pattern4, reasoning_text), 1, f0),
      LAMBDA f1 :
  Let(FoldPatterns(TagKeywordPatterns, 1, reasoning_text, tag_names, f1), LAMBDA f2 :
  Let(FoldPatterns(MatchingPatterns, 1, reasoning_text, tag_names, f2), LAMBDA f3 :
  Let(IF Len(f3.tags) < 2
      THEN ReasoningDirectLoop(tag_names, 1, Lower(reasoning_text), f3)
      ELSE f3,
      LAMBDA f4 :
  IF GetAllTags(pt) = <<>> THEN f0.tags ELSE f4.tags))))))

(***************************************************************************)
(* AIAnalyzer._parse_ai_response                                           *)
(***************************************************************************)
\* more than 30% of the distinct characters (blanks and newlines aside) are
\* in arabic_chars
IsArabicText(text) ==
  LET text_chars == {text[i] : i \in 1..Len(text)} \ {" ", "\n"}
  IN  text_chars # {} /\
      10 * Cardinality(text_chars \cap ArabicChars) > 3 * Cardinality(text_chars)

StrReasoning  == <<"r","e","a","s","o","n","i","n","g">>
StrConfidence == <<"c","o","n","f","i","d","e","n","c","e">>
StrReference  == <<"r","e","f","e","r","e","n","c","e">>
StrMindMapReference == <<"m","i","n","d"," ","m","a","p"," ","r","e","f","e","r","e","n","c","e">>
StrHigh == <<"h","i","g","h">>
StrLow  == <<"l","o","w">>
\* the Arabic labels and levels of the source, letter by letter
ArLogic      == <<"<alef>","<lam>","<meem>","<noon>","<tah>","<qaf>">>
ArInference  == <<"<alef>","<lam>","<alef>","<seen>","<teh>","<dal>","<lam>","<alef>","<lam>">>
ArConfidence == <<"<alef>","<lam>","<theh>","<qaf>","<tehm>">>
ArConfidenceLevel == <<"<meem>","<seen>","<teh>","<waw>","<alefm>"," ","<alef>","<lam>","<theh>","<qaf>","<tehm>">>
ArReference  == <<"<meem>","<reh>","<jeem>","<ain>">>
ArMindMap    == <<"<khah>","<reh>","<yeh>","<tah>","<tehm>"," ","<alef>","<lam>","<ain>","<qaf>","<lam>">>
ArHighM == <<"<ain>","<alef>","<lam>","<yeh>">>
ArHighF == <<"<ain>","<alef>","<lam>","<yeh>","<tehm>">>
ArLowM  == <<"<meem>","<noon>","<khah>","<feh>","<dad>">>
ArLowF  == <<"<meem>","<noon>","<khah>","<feh>","<dad>","<tehm>">>

\* line.split(':', 1)[1].strip()
AfterColon(line) == Strip(SubSeq(line, Find(<<":">>, line) + 1, Len(line)))

IsReasoningLine(line) ==
  Contains(StrReasoning, Lower(line)) \/ Contains(ArLogic, line) \/ Contains(ArInference, line)
IsConfidenceLine(line) ==
  /\ Contains(StrConfidence, Lower(line)) \/ Contains(ArConfidence, line)
       \/ Contains(ArConfidenceLevel, line)
  /\ Contains(<<":">>, line)
IsReferenceLine(line) ==
  Contains(StrMindMapReference, Lower(line)) \/ Contains(StrReference, Lower(line))
    \/ Contains(ArReference, line) \/ Contains(ArMindMap, line)

\* the normalization of the value of a confidence line
NormalizeConfidence(conf, is_arabic) ==
  LET conf_lower == Lower(Strip(conf))
  IN  IF is_arabic
      THEN (IF Contains(ArHighM, conf_lower) \/ Contains(ArHighF, conf_lower)
                 \/ Contains(StrHigh, conf_lower) THEN "High"
            ELSE IF Contains(ArLowM, conf_lower) \/ Contains(ArLowF, conf_lower)
                      \/ Contains(StrLow, conf_lower) THEN "Low"
            ELSE "Medium")
      ELSE (IF Contains(StrHigh, conf_lower) THEN "High"
            ELSE IF Contains(StrLow, conf_lower) THEN "Low"
            ELSE "Medium")

\* a reading of the value that knows the English levels only
ConfidenceOfLineEnglish(line, is_arabic) ==
  NormalizeConfidence(Remove(AfterColon(line), {"[", "]"}), FALSE)
ConfidenceOfLine(line, is_arabic) ==
  NormalizeConfidence(Remove(AfterColon(line), {"[", "]"}), is_arabic)

\* STEP 4, one line; st = [section, reasoning_lines, reference_lines, confidence]
ParseLine(raw, is_arabic, st) ==
  LET line == Strip(raw)
      st1 == IF st.section = "reasoning"
             THEN [st EXCEPT !.reasoning_lines = Append(@, line)] ELSE st
      st2 == IF IsConfidenceLine(line)
             THEN [st1 EXCEPT !.confidence = ConfidenceOfLine(line, is_arabic)] ELSE st1
  IN  IF line = <<>> THEN st
      ELSE IF IsReasoningLine(line)
      THEN [st EXCEPT !.section = "reasoning",
                      !.reasoning_lines = IF Contains(<<":">>, line)
                                          THEN Append(@, AfterColon(line)) ELSE @]
      ELSE IF IsReferenceLine(line)
      THEN [st2 EXCEPT !.section = "reference",
                       !.reference_lines = IF Contains(<<":">>, line)
                                           THEN Append(@, AfterColon(line)) ELSE @]
      ELSE IF st2.section = "reference"
      THEN [st2 EXCEPT !.reference_lines = Append(@, line)]
      ELSE st2
RECURSIVE ParseLinesFromHigh(_, _, _, _)
\* a line loop that starts from the highest level instead of the default
ParseLinesFromHigh(lines, k, is_arabic, st) ==
  IF k > Len(lines) THEN st
  ELSE ParseLinesFromHigh(lines, k + 1, is_arabic,
         ParseLine(lines[k], is_arabic,
                   IF k = 1 THEN [st EXCEPT !.confidence = "High"] ELSE st))
RECURSIVE ParseLines(_, _, _, _)
ParseLines(lines, k, is_arabic, st) ==
  IF k > Len(lines) THEN st
  ELSE ParseLines(lines, k + 1, is_arabic, ParseLine(lines[k], is_arabic, st))

RECURSIVE AppendById(_, _, _, _)
\* append the name of each id that resolves and is not yet in the list
AppendById(pt, tag_ids, k, tags) ==
  IF k > Len(tag_ids) THEN tags
  ELSE Let(GetTagById(pt, tag_ids[k]), LAMBDA tag_name :
         IF tag_name # None /\ ~InSeq(tag_name, tags)
         THEN AppendById(pt, tag_ids, k + 1, Append(tags, tag_name))
         ELSE AppendById(pt, tag_ids, k + 1, tags))

\* STEP 1 and STEP 2: extracted_tags
ExtractedTags(pt, response_text) ==
  AppendById(pt, ExtractTagIdsFromText(response_text), 1,
             ExtractTagsFromResponse(response_text))

\* "Final validation: ensure all tags are valid"
FinalValidated(pt, tags) == SelectSeq(tags, LAMBDA tag : InSeq(tag, TagNames(pt)))

\* the default result, before any step
\* a default that reads an unstated confidence as the lowest level
DefaultConfidenceLow == "Low"
DefaultConfidence == "Medium"

\* a resolver that hands out the candidates of STEP 1 and 2 unresolved
ParseAiResponseUnresolved(pt, response_text) ==
  [tags |-> ExtractedTags(pt, response_text), confidence |-> DefaultConfidence,
   reasoning |-> <<>>, mind_map_reference |-> <<>>]

ParseAiResponse(pt, response_text) ==
  LET is_arabic == IsArabicText(response_text)
      lines == SplitOn(response_text, "\n")
  IN
  \* STEP 1-3
  Let(ExtractedTags(pt, response_text), LAMBDA extracted_tags :
  Let(IF extracted_tags # <<>> THEN ValidateAndMatchTags(pt, extracted_tags) ELSE <<>>,
      LAMBDA tags3 :
  \* STEP 4
  Let(ParseLines(lines, 1, is_arabic,
                 [section |-> "none", reasoning_lines |-> <<>>,
                  reference_lines |-> <<>>, confidence |-> DefaultConfidence]),
      LAMBDA st :
  Let(Strip(Join(st.reasoning_lines, <<" ">>)), LAMBDA reasoning :
  Let(Strip(Join(st.reference_lines, <<" ">>)), LAMBDA mind_map_reference :
  \* STEP 5
  Let(IF mind_map_reference # <<>>
      THEN AppendById(pt, ExtractTagIdsFromText(mind_map_reference), 1, tags3)
      ELSE tags3,
      LAMBDA tags5 :
  \* STEP 6
  Let(IF tags5 = <<>> /\ reasoning # <<>>
      THEN AppendById(pt, ExtractTagIdsFromText(reasoning), 1, tags5)
      ELSE tags5,
      LAMBDA tags6a :
  Let(ExtractTagsFromReasoning(pt, reasoning), LAMBDA tags_from_reasoning :
  Let(ValidateAndMatchTags(pt, tags_from_reasoning), LAMBDA validated_tags :
  Let(IF tags5 = <<>> /\ reasoning # <<>> /\ tags6a = <<>>
         /\ tags_from_reasoning # <<>> /\ validated_tags # <<>>
      THEN validated_tags
      ELSE tags6a,
      LAMBDA tags6 :
  [tags |-> FinalValidated(pt, tags6),
   confidence |-> st.confidence,
   reasoning |-> reasoning,
   mind_map_reference |-> mind_map_reference]))))))))))


(***************************************************************************)
(* AIAnalyzer._throttle_request.  Times are whole seconds; time.sleep(t)   *)
(* returns after t seconds.                                                *)
(***************************************************************************)
\* self.min_request_interval
MinRequestInterval == 20
\* the delay before the first request
FirstRequestDelay == 5
\* maxlen of the deque and the number of requests allowed in a window
MaxRequestTimes == 15
\* the window, in seconds
WindowSeconds == 60
RECURSIVE DropOld(_, _)
\* while self.request_times and current_time - self.request_times[0] > 60: popleft()
DropOld(times, current_time) ==
  IF times # <<>> /\ current_time - times[1] > WindowSeconds
  THEN DropOld(Tail(times), current_time) ELSE times
\* deque.append on a deque with maxlen
DequeAppend(times, t) ==
  IF Len(times) >= MaxRequestTimes THEN Append(Tail(times), t) ELSE Append(times, t)
\* the time at which _throttle_request stops sleeping
ThrottledTime(times, current_time) ==
  Let(IF Len(times) >= MaxRequestTimes /\ WindowSeconds - (current_time - times[1]) + 2 > 0
      THEN current_time + (WindowSeconds - (current_time - times[1]) + 2)
      ELSE current_time,
      LAMBDA after_window :
    IF times # <<>>
    THEN IF after_window - times[Len(times)] < MinRequestInterval
         THEN after_window + (MinRequestInterval - (after_window - times[Len(times)]))
         ELSE after_window
    ELSE after_window + FirstRequestDelay)
\* _throttle_request: request_times and the time when it returns
ThrottleRequest(times, current_time) ==
  Let(DropOld(times, current_time), LAMBDA kept :
  Let(ThrottledTime(kept, current_time), LAMBDA t :
    [request_times |-> DequeAppend(kept, t), now |-> t]))

(***************************************************************************)
(* AIAnalyzer._call_gemini and _extract_and_validate_response: what one    *)
(* generate_content invocation can do, and how its response is read        *)
(***************************************************************************)
\* candidate.finish_reason: None, an int (the library's FinishReason is an
\* IntEnum) or a str
FrNone == [t |-> "none"]
FrInt(n) == [t |-> "int", n |-> n]
FrStr(s) == [t |-> "str", s |-> s]
StrSAFETY == <<"S","A","F","E","T","Y">>
StrSTOP == <<"S","T","O","P">>
\* str.isdigit()
IsDigit(s) == Len(s) > 0 /\ \A i \in 1..Len(s) : s[i] \in DigitSet
\* str(finish_reason), for a finish_reason that is not None
FinishReasonStr(fr) == IF fr.t = "int" THEN DigitsOf(fr.n) ELSE fr.s
\* finish_reason_int, as the set of its values: empty when it is None
FinishReasonInt(fr) ==
  CASE fr.t = "int" -> {fr.n}
    [] fr.t = "str" /\ IsDigit(fr.s) -> {IntOf(fr.s, 1, 0)}
    [] OTHER -> {}
\* is_safety_block
IsSafetyBlock(fr) ==
  \/ fr.t = "str" /\ fr.s = StrSAFETY
  \/ fr.t = "int" /\ fr.n = 2
  \/ fr.t # "none" /\ FinishReasonStr(fr) = StrSAFETY
  \/ fr.t # "none" /\ FinishReasonStr(fr) = <<"2">>
  \/ 2 \in FinishReasonInt(fr)

\* a text attribute of a response: absent or None, a property that raises
\* (the library's response.text raises ValueError when there is no valid
\* part), or a str
TextNone == [k |-> "none"]
TextRaises == [k |-> "raises"]
TextStr(s) == [k |-> "str", s |-> s]
\* hasattr(x, 'text') and x.text
HasTruthyText(t) == t.k = "str" /\ Len(t.s) > 0

\* what generate_content does: it does not return within the timeout, it
\* raises, it returns None, or it returns a response
Slow == [k |-> "slow"]
Raises(msg) == [k |-> "raise", msg |-> msg]
ReturnsNone == [k |-> "none"]
Response(candidates, finish_reason, text, part_text) ==
  [k |-> "response", candidates |-> candidates, finish_reason |-> finish_reason,
   text |-> text, part_text |-> part_text]

\* _extract_and_validate_response(response): the stripped text, or None.
\* Method 3 reads a candidate that is a dict; the candidates of a
\* generate_content response are objects, for which it finds nothing.
ExtractAndValidateResponseUnchecked(response) ==
  IF response.k # "response" THEN None
  ELSE IF ~response.candidates THEN None
  ELSE IF HasTruthyText(response.text) /\ Strip(response.text.s) # <<>>
    THEN Strip(response.text.s)
  ELSE IF HasTruthyText(response.part_text) /\ Strip(response.part_text.s) # <<>>
    THEN Strip(response.part_text.s)
  ELSE None
ExtractAndValidateResponse(response) ==
  IF response.k # "response" THEN None
  ELSE IF ~response.candidates THEN None
  ELSE IF IsSafetyBlock(response.finish_reason) THEN None
  ELSE IF HasTruthyText(response.text) /\ Strip(response.text.s) # <<>>
    THEN Strip(response.text.s)
  ELSE IF HasTruthyText(response.part_text) /\ Strip(response.part_text.s) # <<>>
    THEN Strip(response.part_text.s)
  ELSE None
\* the messages of the exceptions _call_gemini raises; the last is the ValueError of
\* the library when response.text is read from a response without a valid part
MsgTimeout ==
  <<"A","P","I"," ","c","a","l","l"," ","t","i","m","e","d"," ","o","u","t"," ","a","f","t","e","r",
    " ","2","5"," ","s","e","c","o","n","d","s","."," ","T","h","e"," ","r","e","q","u","e","s","t",
    " ","t","o","o","k"," ","t","o","o"," ","l","o","n","g"," ","t","o"," ","c","o","m","p","l","e",
    "t","e",".">>
MsgNoResponse ==
  <<"A","P","I"," ","c","a","l","l"," ","r","e","t","u","r","n","e","d"," ","n","o"," ","r","e","s",
    "p","o","n","s","e">>
MsgSafetyFilterBlocked ==
  <<"S","A","F","E","T","Y","_","F","I","L","T","E","R","_","B","L","O","C","K","E","D",":"," ","C",
    "o","n","t","e","n","t"," ","w","a","s"," ","b","l","o","c","k","e","d"," ","b","y"," ","G","e",
    "m","i","n","i"," ","s","a","f","e","t","y"," ","f","i","l","t","e","r","s"," ","d","e","s","p",
    "i","t","e"," ","m","u","l","t","i","p","l","e"," ","r","e","t","r","y"," ","a","t","t","e","m",
    "p","t","s"," ","w","i","t","h"," ","d","i","f","f","e","r","e","n","t"," ","s","a","f","e","t",
    "y"," ","s","e","t","t","i","n","g","s"," ","a","n","d"," ","m","o","d","e","l","s","."," ","T",
    "h","e"," ","A","P","I"," ","k","e","y"," ","i","s"," ","v","a","l","i","d",","," ","b","u","t",
    " ","t","h","e"," ","c","o","n","t","e","n","t"," ","t","r","i","g","g","e","r","s"," ","s","a",
    "f","e","t","y"," ","f","i","l","t","e","r","s"," ","t","h","a","t"," ","c","a","n","n","o","t",
    " ","b","e"," ","d","i","s","a","b","l","e","d","."," ","T","h","i","s"," ","i","s"," ","a"," ",
    "c","o","n","t","e","n","t"," ","f","i","l","t","e","r","i","n","g"," ","i","s","s","u","e",",",
    " ","n","o","t"," ","a","n"," ","A","P","I"," ","k","e","y"," ","i","s","s","u","e",".">>
MsgBlockedNoSettings ==
  <<"C","o","n","t","e","n","t"," ","w","a","s"," ","b","l","o","c","k","e","d"," ","b","y"," ","G",
    "e","m","i","n","i"," ","s","a","f","e","t","y"," ","f","i","l","t","e","r","s","."," ","P","l",
    "e","a","s","e"," ","t","r","y"," ","r","e","p","h","r","a","s","i","n","g"," ","y","o","u","r",
    " ","s","c","e","n","a","r","i","o"," ","i","n"," ","a"," ","m","o","r","e"," ","n","e","u","t",
    "r","a","l"," ","w","a","y",".">>
MsgEmptyNoText ==
  <<"E","m","p","t","y"," ","r","e","s","p","o","n","s","e"," ","f","r","o","m"," ","G","e","m","i",
    "n","i"," ","A","P","I"," ","-"," ","n","o"," ","t","e","x","t"," ","c","o","n","t","e","n","t",
    " ","r","e","t","u","r","n","e","d">>
MsgEmptyNoCandidates ==
  <<"E","m","p","t","y"," ","r","e","s","p","o","n","s","e"," ","f","r","o","m"," ","G","e","m","i",
    "n","i"," ","A","P","I"," ","-"," ","n","o"," ","c","a","n","d","i","d","a","t","e","s"," ","o",
    "r"," ","t","e","x","t"," ","r","e","t","u","r","n","e","d">>
MsgNoValidPart ==
  <<"I","n","v","a","l","i","d"," ","o","p","e","r","a","t","i","o","n",":"," ","T","h","e"," ",
    "r","e","s","p","o","n","s","e",".","t","e","x","t"," ","q","u","i","c","k"," ","a","c","c",
    "e","s","s","o","r"," ","r","e","q","u","i","r","e","s"," ","t","h","e"," ","r","e","s","p","o",
    "n","s","e"," ","t","o"," ","c","o","n","t","a","i","n"," ","a"," ","v","a","l","i","d"," ",
    "P","a","r","t",","," ","b","u","t"," ","n","o","n","e"," ","w","e","r","e"," ","r","e","t",
    "u","r","n","e","d",".">>
\* reason_map.get(finish_reason_int, f'REASON_{finish_reason_int}')
ReasonName(n) ==
  CASE n = 2 -> StrSAFETY
    [] n = 3 -> <<"R","E","C","I","T","A","T","I","O","N">>
    [] n = 4 -> <<"O","T","H","E","R">>
    [] n = 5 -> <<"M","A","X","_","T","O","K","E","N","S">>
    [] OTHER -> <<"R","E","A","S","O","N","_">> \o DigitsOf(n)
MsgResponseBlocked(reason_name) ==
  <<"G","e","m","i","n","i"," ","A","P","I"," ","r","e","s","p","o","n","s","e"," ","b","l","o","c",
    "k","e","d",":"," ">> \o reason_name \o
  <<"."," ","P","l","e","a","s","e"," ","t","r","y"," ","r","e","p","h","r","a","s","i","n","g"," ",
    "y","o","u","r"," ","s","c","e","n","a","r","i","o",".">>
\* model_name
ModelName == <<"g","e","m","i","n","i","-","2",".","5","-","f","l","a","s","h">>
\* "404" in error_msg or "not found" in error_msg.lower() or
\* "does not exist" in error_msg.lower()
SaysNotFound(error_msg) ==
  \/ Contains(<<"4","0","4">>, error_msg)
  \/ Contains(<<"n","o","t"," ","f","o","u","n","d">>, Lower(error_msg))
  \/ Contains(<<"d","o","e","s"," ","n","o","t"," ","e","x","i","s","t">>, Lower(error_msg))
\* the except clause around genai.GenerativeModel(model_name)
ModelError(error_msg) ==
  IF SaysNotFound(error_msg)
    THEN <<"M","o","d","e","l"," ","'">> \o ModelName \o
         <<"'"," ","n","o","t"," ","a","v","a","i","l","a","b","l","e","."," ","T","h","e"," ","m","o","d",
           "e","l"," ","m","a","y"," ","n","o","t"," ","e","x","i","s","t"," ","o","r"," ","y","o","u","r",
           " ","A","P","I"," ","k","e","y"," ","d","o","e","s","n","'","t"," ","h","a","v","e"," ","a","c",
           "c","e","s","s","."," ","E","r","r","o","r",":"," ">> \o error_msg
    ELSE error_msg

\* how a step of _call_gemini ends: it returns a text, it raises, or it goes
\* on to a retry
Returns(text) == [to |-> "return", text |-> text]
Raise(msg) == [to |-> "raise", msg |-> msg]
GoRetry(n) == [to |-> "retry", n |-> n]

\* the initial request, from the join of the timeout thread to the end of
\* the try block
InitialRequestStep(outcome, settings) ==
  IF outcome.k = "slow" THEN Raise(MsgTimeout)
  ELSE IF outcome.k = "raise" THEN Raise(outcome.msg)
  ELSE IF outcome.k = "none" THEN Raise(MsgNoResponse)
  ELSE IF outcome.candidates THEN
    IF IsSafetyBlock(outcome.finish_reason)
      THEN IF settings THEN GoRetry(1) ELSE Raise(MsgBlockedNoSettings)
    ELSE LET response_text == ExtractAndValidateResponse(outcome)
             ns == {n \in FinishReasonInt(outcome.finish_reason) : n # 0 /\ n # 1}
         IN IF response_text # None THEN Returns(response_text)
            ELSE IF ns # {} THEN Raise(MsgResponseBlocked(ReasonName(CHOOSE n \in ns : TRUE)))
            ELSE Raise(MsgEmptyNoText)
  ELSE IF outcome.text.k = "raises" THEN Raise(MsgNoValidPart)
  ELSE IF HasTruthyText(outcome.text) /\ Strip(outcome.text.s) # <<>>
    THEN Returns(Strip(outcome.text.s))
  ELSE Raise(MsgEmptyNoCandidates)

\* the number of retries after a safety block
LastRetry == 5
\* request_timeout_seconds
RequestTimeoutSeconds == 25
\* the seconds an invocation that returns takes
CallSeconds == 1

\* retry n: an exception of the invocation is caught, a response is
\* validated, and a retry without a valid text leads to the next one or,
\* after the last, to the SAFETY_FILTER_BLOCKED exception
RetryStep(n, outcome) ==
  LET retry_text == IF outcome.k = "raise" THEN None
                    ELSE ExtractAndValidateResponse(outcome)
  IN IF retry_text # None THEN Returns(retry_text)
     ELSE IF n < LastRetry THEN GoRetry(n + 1)
     ELSE Raise(MsgSafetyFilterBlocked)

\* the except clause of _call_gemini: the message of the exception it raises
\* for an exception with message error_msg
GeminiError(error_msg) ==
  LET lower == Lower(error_msg) IN
  IF SaysNotFound(error_msg)
    THEN <<"G","e","m","i","n","i"," ","m","o","d","e","l"," ","'">> \o ModelName \o
         <<"'"," ","n","o","t"," ","a","v","a","i","l","a","b","l","e","."," ","E","r","r","o","r",":"," ">> \o error_msg
  ELSE IF Contains(<<"S","A","F","E","T","Y","_","F","I","L","T","E","R","_","B","L","O","C","K","E","D">>, error_msg) THEN error_msg
  ELSE IF /\ Contains(<<"4","0","3">>, error_msg)
          /\ (Contains(<<"p","e","r","m","i","s","s","i","o","n">>, lower) \/ Contains(<<"A","P","I"," ","k","e","y">>, lower))
          /\ Contains(<<"i","n","v","a","l","i","d">>, lower)
    THEN <<"G","e","m","i","n","i"," ","A","P","I"," ","k","e","y"," ","i","n","v","a","l","i","d"," ","o",
           "r"," ","p","e","r","m","i","s","s","i","o","n"," ","d","e","n","i","e","d","."," ","P","l","e",
           "a","s","e"," ","c","h","e","c","k"," ","y","o","u","r"," ","G","E","M","I","N","I","_","A","P",
           "I","_","K","E","Y"," ","i","n"," ",".","e","n","v"," ","f","i","l","e","."," ","E","r","r","o",
           "r",":"," ">> \o error_msg
  ELSE IF \/ Contains(<<"4","2","9">>, error_msg)
          \/ Contains(<<"q","u","o","t","a">>, lower)
          \/ Contains(<<"r","a","t","e"," ","l","i","m","i","t">>, lower)
          \/ Contains(<<"R","E","S","O","U","R","C","E","_","E","X","H","A","U","S","T","E","D">>, error_msg)
          \/ Contains(<<"r","e","s","o","u","r","c","e","_","e","x","h","a","u","s","t","e","d">>, lower)
          \/ Contains(<<"Q","u","o","t","a"," ","e","x","c","e","e","d","e","d">>, error_msg)
          \/ Contains(<<"q","u","o","t","a"," ","e","x","c","e","e","d","e","d">>, lower)
    THEN IF SaysNotFound(error_msg)
           THEN <<"M","o","d","e","l"," ","'">> \o ModelName \o
                <<"'"," ","n","o","t"," ","a","v","a","i","l","a","b","l","e","."," ","T","h","i","s"," ","m","i",
                  "g","h","t"," ","b","e"," ","c","a","u","s","i","n","g"," ","t","h","e"," ","e","r","r","o","r",
                  "."," ","T","r","y"," ","u","s","i","n","g"," ","'","g","e","m","i","n","i","-","1",".","5","-",
                  "f","l","a","s","h","'"," ","i","n","s","t","e","a","d","."," ","E","r","r","o","r",":"," ">> \o error_msg
           ELSE <<"G","e","m","i","n","i"," ","A","P","I"," ","r","a","t","e"," ","l","i","m","i","t"," ","e","x",
                  "c","e","e","d","e","d","."," ","P","l","e","a","s","e"," ","w","a","i","t"," ","2","-","3"," ",
                  "m","i","n","u","t","e","s"," ","a","n","d"," ","t","r","y"," ","a","g","a","i","n","."," ","F",
                  "r","e","e"," ","t","i","e","r",":"," ","1","5"," ","r","e","q","u","e","s","t","s","/","m","i",
                  "n","u","t","e",","," ","1",",","5","0","0"," ","r","e","q","u","e","s","t","s","/","d","a","y",
                  "."," ","E","r","r","o","r",":"," ">> \o error_msg
  ELSE IF Contains(<<"s","a","f","e","t","y">>, lower) \/ Contains(<<"b","l","o","c","k","e","d">>, lower)
    THEN <<"C","o","n","t","e","n","t"," ","w","a","s"," ","b","l","o","c","k","e","d"," ","b","y"," ","G",
           "e","m","i","n","i"," ","s","a","f","e","t","y"," ","f","i","l","t","e","r","s","."," ","P","l",
           "e","a","s","e"," ","t","r","y"," ","r","e","p","h","r","a","s","i","n","g"," ","y","o","u","r",
           " ","s","c","e","n","a","r","i","o","."," ","E","r","r","o","r",":"," ">> \o error_msg
  ELSE <<"G","e","m","i","n","i"," ","A","P","I"," ","e","r","r","o","r",":"," ">> \o error_msg

(***************************************************************************)
(* AIAnalyzer.analyze_scenario: the dict returned for an exception         *)
(***************************************************************************)
\* wait_minutes
WaitMinutes(error_str) ==
  IF Contains(<<"m","i","n","u","t","e">>, Lower(error_str)) THEN 2
  ELSE IF Contains(<<"h","o","u","r">>, Lower(error_str)) \/ Contains(<<"d","a","y">>, Lower(error_str)) THEN 60
  ELSE 2
\* the except clause of analyze_scenario without its classification: the last
\* branch for every message
ErrorResultUnclassified(error_str) ==
  [error |-> "AI Analysis Failed", details |-> error_str, full_error |-> error_str]
\* the except clause of analyze_scenario; the fixed texts of 'details' and
\* 'solution' are written as strings
ErrorResult(error_str) ==
  LET lower == Lower(error_str) IN
  IF Contains(<<"S","A","F","E","T","Y","_","F","I","L","T","E","R","_","B","L","O","C","K","E","D">>, error_str)
    THEN [error |-> "Content Blocked by Safety Filters",
          details |-> "The content was blocked by Gemini safety filters despite attempts to disable them. Your API key is valid, but the content triggers safety filters that cannot be bypassed.",
          solution |-> "This is an intermittent issue with Gemini's safety filters. The system will retry automatically. If this persists, try rephrasing your scenario or contact support.",
          full_error |-> error_str]
  ELSE IF \/ Contains(<<"A","P","I"," ","k","e","y">>, error_str) /\ Contains(<<"i","n","v","a","l","i","d">>, lower)
          \/ /\ Contains(<<"4","0","3">>, error_str)
             /\ Contains(<<"p","e","r","m","i","s","s","i","o","n">>, lower)
             /\ Contains(<<"A","P","I"," ","k","e","y">>, error_str)
    THEN [error |-> "Invalid Gemini API Key",
          details |-> "The Gemini API key is invalid or has insufficient permissions.",
          solution |-> "Please check your GEMINI_API_KEY in the .env file. Get a free key at: https://makersuite.google.com/app/apikey",
          full_error |-> error_str]
  ELSE IF \/ Contains(<<"r","a","t","e"," ","l","i","m","i","t">>, lower)
          \/ Contains(<<"q","u","o","t","a">>, lower)
          \/ Contains(<<"4","2","9">>, error_str)
          \/ Contains(<<"R","E","S","O","U","R","C","E","_","E","X","H","A","U","S","T","E","D">>, error_str)
    THEN [error |-> "Gemini API Rate Limit Exceeded",
          details |-> "Your API key has exceeded the rate limit. This can happen if the key was used recently or shared with others.",
          solution |-> [wait_minutes |-> WaitMinutes(error_str),
                        text |-> "Please wait {wait_minutes} minutes before trying again. Free tier limits: 15 requests/minute, 1,500 requests/day. If this persists, consider getting a new API key from https://makersuite.google.com/app/apikey"],
          full_error |-> error_str]
  ELSE IF Contains(<<"s","a","f","e","t","y">>, lower) \/ Contains(<<"b","l","o","c","k","e","d">>, lower)
    THEN [error |-> "Content Blocked by Safety Filters",
          details |-> "The content was blocked by Gemini safety filters.",
          solution |-> "Please try rephrasing your scenario description.",
          full_error |-> error_str]
  ELSE IF Contains(<<"m","o","d","e","l"," ","n","o","t"," ","a","v","a","i","l","a","b","l","e">>, lower) \/ Contains(<<"4","0","4">>, error_str)
    THEN [error |-> "Gemini Model Not Available",
          details |-> "The requested Gemini model is not available.",
          solution |-> "The app will try to use an alternative model automatically.",
          full_error |-> error_str]
  ELSE [error |-> "AI Analysis Failed", details |-> error_str, full_error |-> error_str]

\* the dict returned for a blank scenario; the Arabic sentence is written as
\* a token
BlankScenarioResult(lang) ==
  [error |-> IF lang = "en" THEN "Please provide a customer scenario"
             ELSE "<ar: please provide a customer scenario>"]

\* where an exception raised at a place of analyze_scenario or _call_gemini
\* is handled: the try statements that enclose the place
HandlerOf(at) ==
  CASE at \in {"model", "request", "retry"} -> "gemini_except"
    [] at \in {"images", "gemini_except", "parse"} -> "analyze_except"
    [] OTHER -> "escaped"

(***************************************************************************)
(* The inputs of the model: catalogs and replies                           *)
(***************************************************************************)
\* the catalog of the example scenario of the specification
CatalogA == <<TagRec(<<"T","0","0","0","1">>, <<"P","a","y","m","e","n","t"," ","F","a","i","l","u","r","e">>),
              TagRec(<<"T","0","0","0","2">>, <<"D","e","v","i","c","e"," ","L","i","m","i","t"," ","E","x","c","e","e","d","e","d">>)>>
\* a name that holds the letters "and", an id written without leading zeros
CatalogB == <<TagRec(<<"T","0","0","0","1">>, <<"S","t","a","n","d","a","r","d"," ","P","l","a","n">>),
              TagRec(<<"T","9">>, <<"D","e","v","i","c","e"," ","L","i","m","i","t"," ","E","x","c","e","e","d","e","d">>)>>
\* two names that differ only in a trailing parenthetical
CatalogC == <<TagRec(<<"T","0","0","0","1">>, <<"R","e","f","u","n","d"," ","(","F","u","l","l",")">>),
              TagRec(<<"T","0","0","0","2">>, <<"R","e","f","u","n","d"," ","(","P","a","r","t","i","a","l",")">>)>>
\* a one-word name; two spellings of one id
CatalogD == <<TagRec(<<"T","9">>, <<"B","i","l","l","i","n","g">>),
              TagRec(<<"T","0","0","0","9">>, <<"R","e","f","u","n","d"," ","R","e","q","u","e","s","t">>)>>
Catalogs == {CatalogA, CatalogB, CatalogC, CatalogD}

\* the lines a reply is made of
TagLine(x)          == <<"T","a","g",":"," ">> \o x
RecommendedLine(x)  == <<"R","e","c","o","m","m","e","n","d","e","d"," ","T","a","g","(","s",")",":"," ">> \o x
BulletRecommendedLine(x) == <<"-"," ","R","e","c","o","m","m","e","n","d","e","d"," ","T","a","g","(","s",")",":"," ">> \o x
QuotedLine(x)       == <<"S","e","e"," ","\"">> \o x \o <<"\""," ","h","e","r","e">>
ReasoningLine(x)    == <<"R","e","a","s","o","n","i","n","g",":"," ","a","b","o","u","t"," ">> \o Lower(x)
ConfidenceLine(x)   == <<"C","o","n","f","i","d","e","n","c","e",":"," ">> \o x
NoTagLine           == <<"I"," ","c","a","n","n","o","t"," ","h","e","l","p"," ","w","i","t","h"," ","t","h","i","s">>
ArConfidenceHighLine == ArConfidence \o <<":"," ">> \o ArHighF
NearDeviceLimit     == <<"D","e","v","i","c","e"," ","L","i","m","i","t","s"," ","E","x","c","e","e","d","e","d">>
LevelHigh == <<"H","i","g","h">>
LevelLow  == <<"L","o","w">>

\* the longest reply of the model, in lines
MaxLines == 2

RecordLines(r) == {TagLine(r.tag_name), TagLine(r.tag_id),
                   RecommendedLine(r.tag_name), BulletRecommendedLine(r.tag_name),
                   QuotedLine(r.tag_name), ReasoningLine(r.tag_name)}
ConfidenceLines == {ConfidenceLine(LevelHigh), ConfidenceLine(LevelLow), ArConfidenceHighLine}
FixedLines == ConfidenceLines \cup {NoTagLine, QuotedLine(NearDeviceLimit)}
LinePool(pt) == FixedLines \cup UNION {RecordLines(pt[k]) : k \in 1..Len(pt)}
Replies(pt) == UNION {[1..n -> LinePool(pt)] : n \in 1..MaxLines}

(***************************************************************************)
(* The resolver as a state machine: a reply arrives for a session whose    *)
(* catalog is loaded, and _parse_ai_response resolves it.                  *)
(***************************************************************************)
VARIABLES
  parser_tags,     \* mind_map_parser.tags, the tag records in insertion order
  response_lines,  \* response_text, as its lines
  result,          \* the dict _parse_ai_response returned
  found_ids,       \* what _extract_tag_ids_from_text returned
  found_names,     \* what _get_tag_by_id returned for each of found_ids
  pc,              \* where the run stands
  scenario_text,   \* analyze_scenario's scenario_text
  language,        \* analyze_scenario's language
  safety_settings, \* whether _call_gemini has safety settings (TRUE) or None (FALSE)
  retry,           \* the retry _call_gemini is at: 0 for the initial request, 1..5
  last_attempt,    \* what the last generate_content invocation did
  exc,             \* the exception raised last: its message and the place that raised it
  ai_response,     \* the text _call_gemini returned
  parse_runs,      \* how many times analyze_scenario ran _parse_ai_response
  returned,        \* the dict analyze_scenario returned
  storage,         \* app.py: the catalog in each session's storage file, None when absent
  local_file,      \* app.py: the catalog of the workbook in the working directory, None when absent
  mind_map_parser, \* app.py: the global mind_map_parser
  ai_analyzer,     \* app.py: the global ai_analyzer
  requests,        \* app.py: the request each thread is handling
  objects,         \* how many objects (parsers, analyzers) were constructed
  call_args,       \* the arguments of a method of AIAnalyzer called on its own
  call_value,      \* what that call returned
  clock,           \* time.time(), in seconds since the AIAnalyzer was constructed
  request_times,   \* the deque self.request_times of the AIAnalyzer
  calls,           \* the generate_content invocations made so far
  env,             \* app.py: what the process was started with (GEMINI_API_KEY, the build)
  told             \* app.py: for each session, what its last answers told it

resolver_vars == <<parser_tags, response_lines, result, found_ids, found_names>>
time_vars == <<clock, request_times, calls>>
analyze_vars == <<scenario_text, language, safety_settings, retry, last_attempt, exc,
                  ai_response, parse_runs, returned, clock, request_times, calls>>
app_vars == <<storage, local_file, mind_map_parser, ai_analyzer, requests, objects, env, told>>
call_vars == <<call_args, call_value>>
vars == <<parser_tags, response_lines, result, found_ids, found_names, pc,
          scenario_text, language, safety_settings, retry, last_attempt, exc,
          ai_response, parse_runs, returned,
          storage, local_file, mind_map_parser, ai_analyzer, requests, objects,
          call_args, call_value, clock, request_times, calls, env, told>>

ResponseText == Join(response_lines, <<"\n">>)
NoResult == [tags |-> <<>>, confidence |-> "none", reasoning |-> <<>>,
             mind_map_reference |-> <<>>]
\* no generate_content invocation was made, no exception raised, nothing returned
NoAttempt == [k |-> "not_called"]
NoExc == [at |-> "nowhere", msg |-> <<>>]
NotReturned == [pending |-> TRUE]
\* analyze_scenario is not running
AnalyzeIdle ==
  /\ scenario_text = <<>> /\ language = "en" /\ safety_settings = FALSE
  /\ retry = 0 /\ last_attempt = NoAttempt /\ exc = NoExc
  /\ ai_response = None /\ parse_runs = 0 /\ returned = NotReturned
  /\ clock = 0 /\ request_times = <<>> /\ calls = <<>>
\* no method is called on its own
NotCalled == [called |-> FALSE]
CallIdle == call_args = NotCalled /\ call_value = NotCalled
\* the server handles no request
AppIdle ==
  /\ storage = <<>> /\ local_file = None /\ mind_map_parser = None
  /\ ai_analyzer = None /\ requests = <<>> /\ objects = 0
  /\ env = None /\ told = <<>>

Init ==
  /\ parser_tags \in Catalogs
  /\ response_lines \in Replies(parser_tags)
  /\ result = NoResult
  /\ found_ids = <<>> /\ found_names = <<>>
  /\ pc = "reply"
  /\ AnalyzeIdle /\ AppIdle /\ CallIdle

\* _parse_ai_response(response_text)
Parse ==
  /\ pc = "reply"
  /\ result' = ParseAiResponse(parser_tags, ResponseText)
  /\ pc' = "parsed"
  /\ UNCHANGED <<app_vars, call_vars, parser_tags, response_lines, found_ids, found_names, analyze_vars>>

Next == Parse

Spec == Init /\ [][Next]_vars

(***************************************************************************)
(* The identifier path on its own: a text that names one catalog id in     *)
(* some spelling goes through _extract_tag_ids_from_text and each id found *)
(* through _get_tag_by_id.                                                 *)
(***************************************************************************)
\* the number an id of the form T + digits carries
IdNumber(tag_id) == IntOf(SubSeq(tag_id, 2, Len(tag_id)), 1, 0)
ShortId(tag_id) == <<"T">> \o DigitsOf(IdNumber(tag_id))
\* the spellings of an id: as in the catalog, lower case, without leading
\* zeros, padded to three and to four digits, in parentheses, after 'tag'
Spellings(tag_id) ==
  {tag_id, Lower(tag_id), ShortId(tag_id), Lower(ShortId(tag_id)),
   <<"T">> \o ZFill(DigitsOf(IdNumber(tag_id)), 3),
   <<"T">> \o ZFill(DigitsOf(IdNumber(tag_id)), 4),
   <<"(">> \o ShortId(tag_id) \o <<")">>, <<"t","a","g"," ">> \o ShortId(tag_id)}
\* the texts that hold a spelling
IdTexts(tag_id) ==
  UNION {{s, <<"S","e","e"," ">> \o s \o <<" ","f","o","r"," ","d","e","t","a","i","l","s">>, <<"I","t"," ","m","a","t","c","h","e","s"," ">> \o s \o <<".">>}
           : s \in Spellings(tag_id)}

InitIds ==
  /\ parser_tags \in Catalogs
  /\ \E k \in 1..Len(parser_tags) : \E text \in IdTexts(parser_tags[k].tag_id) :
       response_lines = <<text>>
  /\ result = NoResult
  /\ found_ids = <<>> /\ found_names = <<>>
  /\ pc = "text"
  /\ AnalyzeIdle /\ AppIdle /\ CallIdle

\* _extract_tag_ids_from_text(text)
ExtractIds ==
  /\ pc = "text"
  /\ found_ids' = ExtractTagIdsFromText(ResponseText)
  /\ pc' = "ids"
  /\ UNCHANGED <<app_vars, call_vars, parser_tags, response_lines, result, found_names, analyze_vars>>

\* _get_tag_by_id(tag_id) for each id found
LookUpIds ==
  /\ pc = "ids"
  /\ found_names' = [k \in 1..Len(found_ids) |-> GetTagById(parser_tags, found_ids[k])]
  /\ pc' = "names"
  /\ UNCHANGED <<app_vars, call_vars, parser_tags, response_lines, result, found_ids, analyze_vars>>

NextIds == ExtractIds \/ LookUpIds

SpecIds == InitIds /\ [][NextIds]_vars

(***************************************************************************)
(* analyze_scenario as a state machine: the scenario goes to _call_gemini, *)
(* whose generate_content invocations are the environment's choice, and    *)
(* the text it returns to _parse_ai_response; an exception goes to the     *)
(* except clause that encloses the place that raised it.                   *)
(***************************************************************************)
\* the scenarios: empty, blank, and one with text
ScenarioTexts == {<<>>, <<" ","\n">>, <<"M","y"," ","p","a","y","m","e","n","t"," ","f","a","i","l","e","d">>}
\* the reply of the model in response.text, with white space around it, and
\* the text of the first part of the candidate
ModelReply(pt) == <<"\n">> \o TagLine(pt[1].tag_name) \o <<"\n">> \o ConfidenceLine(LevelHigh) \o <<" ","\n">>
PartReply(pt) == TagLine(pt[2].tag_name)
\* messages of the exceptions the library raises
ApiErrors ==
  {<<"4","0","0"," ","A","P","I"," ","k","e","y"," ","n","o","t"," ","v","a","l","i","d","."," ","P","l","e","a","s","e"," ","p","a","s","s"," ","a"," ","v","a","l","i","d"," ","A","P","I"," ","k","e","y",".">>,
   <<"4","0","3"," ","P","e","r","m","i","s","s","i","o","n"," ","d","e","n","i","e","d",":"," ","i","n","v","a","l","i","d"," ","A","P","I"," ","k","e","y">>,
   <<"4","2","9"," ","R","e","s","o","u","r","c","e"," ","h","a","s"," ","b","e","e","n"," ","e","x","h","a","u","s","t","e","d"," ","(","e",".","g","."," ","c","h","e","c","k"," ","q","u","o","t","a",")",".">>,
   <<"4","0","4"," ","m","o","d","e","l","s","/","g","e","m","i","n","i","-","2",".","5","-","f","l","a","s","h"," ","i","s"," ","n","o","t"," ","f","o","u","n","d">>,
   <<"5","0","0"," ","A","n"," ","i","n","t","e","r","n","a","l"," ","e","r","r","o","r"," ","h","a","s"," ","o","c","c","u","r","r","e","d">>}
\* the message of PIL.Image.open for a file that is not an image
MsgCannotIdentify == <<"c","a","n","n","o","t"," ","i","d","e","n","t","i","f","y"," ","i","m","a","g","e"," ","f","i","l","e"," ","'","a",".","p","n","g","'">>
FinishReasons == {FrNone, FrInt(1), FrInt(2), FrInt(3), FrInt(5), FrStr(StrSTOP), FrStr(StrSAFETY),
                  FrStr(<<"2">>), FrStr(<<"M","A","X","_","T","O","K","E","N","S">>)}
TextCells(pt) == {TextNone, TextRaises, TextStr(<<>>), TextStr(<<" ","\n">>), TextStr(ModelReply(pt))}
PartCells(pt) == {TextNone, TextStr(<<" ">>), TextStr(PartReply(pt))}
\* a response without candidates has no finish_reason and no parts
Responses(pt) ==
  {Response(FALSE, FrNone, t, TextNone) : t \in TextCells(pt)} \cup
  {Response(TRUE, x[1], x[2], x[3]) : x \in FinishReasons \X TextCells(pt) \X PartCells(pt)}
Outcomes(pt) == {Slow, ReturnsNone} \cup {Raises(m) : m \in ApiErrors} \cup Responses(pt)

InitAnalyze ==
  /\ parser_tags \in {CatalogA, CatalogC}
  /\ response_lines = <<>>
  /\ result = NoResult
  /\ found_ids = <<>> /\ found_names = <<>>
  /\ pc = "analyze"
  /\ scenario_text \in ScenarioTexts
  /\ language \in {"en", "ar"}
  /\ safety_settings \in BOOLEAN
  /\ retry = 0 /\ last_attempt = NoAttempt /\ exc = NoExc
  /\ ai_response = None /\ parse_runs = 0 /\ returned = NotReturned
  /\ clock = 0 /\ request_times = <<>> /\ calls = <<>>
  /\ AppIdle /\ CallIdle

\* raise Exception(msg) at a place
Throw(at, msg) == exc' = [at |-> at, msg |-> msg] /\ pc' = HandlerOf(at)

\* analyze_scenario up to the try statement: the blank check, and the prompt,
\* which is built from the catalog and the scenario and decides nothing here
AnalyzeScenario ==
  /\ pc = "analyze"
  /\ IF Strip(scenario_text) = <<>>
       THEN returned' = BlankScenarioResult(language) /\ pc' = "returned"
       ELSE returned' = returned /\ pc' = "call_gemini"
  /\ UNCHANGED <<app_vars, call_vars, resolver_vars, time_vars, scenario_text, language, safety_settings, retry,
                 last_attempt, exc, ai_response, parse_runs>>

\* _call_gemini before its try statement: the throttle wait and the images
\* of file_paths, opened with PIL
LoadImages ==
  /\ pc = "call_gemini"
  /\ request_times' = ThrottleRequest(request_times, clock).request_times
  /\ clock' = ThrottleRequest(request_times, clock).now
  /\ \E image \in {"none", "image", "not an image"} :
       IF image = "not an image" THEN Throw("images", MsgCannotIdentify)
       ELSE pc' = "model" /\ exc' = exc
  /\ UNCHANGED <<app_vars, call_vars, resolver_vars, calls, scenario_text, language, safety_settings, retry,
                 last_attempt, ai_response, parse_runs, returned>>

\* genai.GenerativeModel(model_name) and the safety settings
CreateModel ==
  /\ pc = "model"
  /\ \E o \in {ReturnsNone} \cup {Raises(m) : m \in ApiErrors} :
       IF o.k = "raise" THEN Throw("model", ModelError(o.msg))
       ELSE pc' = "request" /\ exc' = exc
  /\ UNCHANGED <<app_vars, call_vars, resolver_vars, time_vars, scenario_text, language, safety_settings, retry,
                 last_attempt, ai_response, parse_runs, returned>>

\* the end of a step of _call_gemini raised at a place
EndStep(step, at) ==
  CASE step.to = "return" -> ai_response' = step.text /\ pc' = "parse" /\ UNCHANGED <<retry, exc>>
    [] step.to = "retry" -> retry' = step.n /\ pc' = "retry" /\ UNCHANGED <<ai_response, exc>>
    [] OTHER -> Throw(at, step.msg) /\ UNCHANGED <<ai_response, retry>>

\* an invocation of generate_content: which attempt it is (0 for the initial
\* request), whether it runs in the thread that is joined with a timeout, and
\* when it starts
Invocation(attempt, guarded, at) == [attempt |-> attempt, guarded |-> guarded, at |-> at]

\* the initial request, made in a thread that is joined with a timeout
InitialRequest ==
  /\ pc = "request"
  /\ calls' = Append(calls, Invocation(0, TRUE, clock))
  /\ \E outcome \in Outcomes(parser_tags) :
       /\ last_attempt' = outcome
       /\ clock' = clock + (IF outcome.k = "slow" THEN RequestTimeoutSeconds ELSE CallSeconds)
       /\ EndStep(InitialRequestStep(outcome, safety_settings), "request")
  /\ UNCHANGED <<app_vars, call_vars, resolver_vars, scenario_text, language, safety_settings, parse_runs,
                 returned, request_times>>

\* retry 1..5: generate_content is called directly, so that an invocation
\* that does not return leaves _call_gemini waiting
Retry ==
  /\ pc = "retry"
  /\ calls' = Append(calls, Invocation(retry, FALSE, clock))
  /\ \E outcome \in Outcomes(parser_tags) :
       /\ last_attempt' = outcome
       /\ IF outcome.k = "slow" THEN pc' = "hung" /\ UNCHANGED <<ai_response, retry, exc, clock>>
          ELSE clock' = clock + CallSeconds /\ EndStep(RetryStep(retry, outcome), "retry")
  /\ UNCHANGED <<app_vars, call_vars, resolver_vars, scenario_text, language, safety_settings, parse_runs,
                 returned, request_times>>

\* the except clause of _call_gemini raises an exception of its own
GeminiExcept ==
  /\ pc = "gemini_except"
  /\ Throw("gemini_except", GeminiError(exc.msg))
  /\ UNCHANGED <<app_vars, call_vars, resolver_vars, time_vars, scenario_text, language, safety_settings, retry,
                 last_attempt, ai_response, parse_runs, returned>>

\* result = self._parse_ai_response(ai_response);
\* result['full_response'] = ai_response; return result
WithFullResponse(r, text) ==
  [tags |-> r.tags, confidence |-> r.confidence, reasoning |-> r.reasoning,
   mind_map_reference |-> r.mind_map_reference, full_response |-> text]
AnalyzeParse ==
  /\ pc = "parse"
  /\ result' = ParseAiResponse(parser_tags, ai_response)
  /\ parse_runs' = parse_runs + 1
  /\ returned' = WithFullResponse(result', ai_response)
  /\ pc' = "returned"
  /\ UNCHANGED <<app_vars, call_vars, time_vars, parser_tags, response_lines, found_ids, found_names, scenario_text,
                 language, safety_settings, retry, last_attempt, exc, ai_response>>

\* the except clause of analyze_scenario returns an error dict
AnalyzeExcept ==
  /\ pc = "analyze_except"
  /\ returned' = ErrorResult(exc.msg)
  /\ pc' = "returned"
  /\ UNCHANGED <<app_vars, call_vars, resolver_vars, time_vars, scenario_text, language, safety_settings, retry,
                 last_attempt, exc, ai_response, parse_runs>>

NextAnalyze ==
  \/ AnalyzeScenario \/ LoadImages \/ CreateModel \/ InitialRequest \/ Retry
  \/ GeminiExcept \/ AnalyzeParse \/ AnalyzeExcept

SpecAnalyze == InitAnalyze /\ [][NextAnalyze]_vars

\* analyze_scenario in a thread that keeps running: a step of _call_gemini
\* that can be taken is taken
SpecAnalyzeLive ==
  /\ InitAnalyze /\ [][NextAnalyze]_vars
  /\ WF_vars(LoadImages) /\ WF_vars(CreateModel) /\ WF_vars(InitialRequest)
  /\ WF_vars(Retry) /\ WF_vars(GeminiExcept)

(***************************************************************************)
(* app.py: the requests of the sessions are handled by several threads of  *)
(* one process, which share the globals mind_map_parser and ai_analyzer.   *)
(* A thread may be suspended between two statements, so each step below    *)
(* ends where a global has been assigned or read.                          *)
(***************************************************************************)
Sessions == {"s1", "s2"}
Threads == {"t1", "t2"}
\* the requests one thread handles, one after the other
MaxRequests == 2
\* the catalogs the sessions uploaded
StoredCatalogs == {CatalogA, CatalogB}
\* the value None where an object is expected, and the answer not yet given
NoObject == [obj |-> 0]
NoAnswer == [status |-> 0]

\* MindMapParser(data_dict=...) and AIAnalyzer(parser): a new object each
\* time; objects are compared by identity
MindMapParser(n, data) == [obj |-> n, tags |-> data]
AIAnalyzer(n, parser) == [obj |-> n, mind_map_parser |-> parser]

NewRequest(session, n) ==
  [pc |-> "start", session |-> session, parser |-> NoObject, analyzer |-> NoObject,
   answer |-> NoAnswer, served |-> n]

InitApp ==
  /\ parser_tags = <<>> /\ response_lines = <<>> /\ result = NoResult
  /\ found_ids = <<>> /\ found_names = <<>>
  /\ pc = "serving"
  /\ AnalyzeIdle /\ CallIdle
  /\ storage \in [Sessions -> StoredCatalogs \cup {None}]
  /\ local_file \in {None, CatalogC}
  /\ mind_map_parser = NoObject /\ ai_analyzer = NoObject
  /\ requests \in {[t \in Threads |-> NewRequest(of[t], 1)] : of \in [Threads -> Sessions]}
  /\ objects = 0
  /\ env = None /\ told = <<>>

\* get_mind_map_parser up to the assignment of the global: the storage file
\* of the session, else the workbook of the working directory, else None
LoadParser(t) ==
  /\ requests[t].pc = "start"
  /\ Let(IF storage[requests[t].session] # None THEN storage[requests[t].session]
         ELSE local_file, LAMBDA data :
       IF data = None
         THEN /\ requests' = [requests EXCEPT ![t].pc = "parser_returned"]
              /\ UNCHANGED <<mind_map_parser, objects>>
         ELSE /\ mind_map_parser' = MindMapParser(objects + 1, data)
              /\ objects' = objects + 1
              /\ requests' = [requests EXCEPT ![t].pc = "parser_stored"])
  /\ UNCHANGED <<storage, local_file, ai_analyzer, resolver_vars, pc, analyze_vars, call_vars, env, told>>

\* print(...); return mind_map_parser
ReturnParser(t) ==
  /\ requests[t].pc = "parser_stored"
  /\ requests' = [requests EXCEPT ![t].parser = mind_map_parser,
                                  ![t].pc = "parser_returned"]
  /\ UNCHANGED <<storage, local_file, mind_map_parser, ai_analyzer, objects,
                 resolver_vars, pc, analyze_vars, call_vars, env, told>>

\* the answer of /api/analyze when get_ai_analyzer returned None
NoMindMapAnswer == [status |-> 400, error |-> "Please upload a mind map first"]

\* get_ai_analyzer after parser = get_mind_map_parser(), up to the
\* assignment of the global; with no parser it returns None and the route
\* answers 400
StoreAnalyzer(t) ==
  /\ requests[t].pc = "parser_returned"
  /\ IF requests[t].parser = NoObject
       THEN /\ requests' = [requests EXCEPT ![t].answer = NoMindMapAnswer,
                                            ![t].pc = "answered"]
            /\ UNCHANGED <<ai_analyzer, objects>>
       ELSE /\ requests' = [requests EXCEPT ![t].pc = "analyzer_stored"]
            /\ IF ai_analyzer = NoObject \/ ai_analyzer.mind_map_parser # requests[t].parser
                 THEN /\ ai_analyzer' = AIAnalyzer(objects + 1, requests[t].parser)
                      /\ objects' = objects + 1
                 ELSE UNCHANGED <<ai_analyzer, objects>>
  /\ UNCHANGED <<storage, local_file, mind_map_parser, resolver_vars, pc, analyze_vars, call_vars, env, told>>

\* return ai_analyzer
ReturnAnalyzer(t) ==
  /\ requests[t].pc = "analyzer_stored"
  /\ requests' = [requests EXCEPT ![t].analyzer = ai_analyzer,
                                  ![t].pc = "analyzer_returned"]
  /\ UNCHANGED <<storage, local_file, mind_map_parser, ai_analyzer, objects,
                 resolver_vars, pc, analyze_vars, call_vars, env, told>>

\* the rest of the route: analyzer.analyze_scenario(...) resolves the
\* scenario against the catalog of analyzer.mind_map_parser
Answer(t) ==
  /\ requests[t].pc = "analyzer_returned"
  /\ requests' = [requests EXCEPT
       ![t].answer = [status |-> 200, catalog |-> requests[t].analyzer.mind_map_parser.tags],
       ![t].pc = "answered"]
  /\ UNCHANGED <<storage, local_file, mind_map_parser, ai_analyzer, objects,
                 resolver_vars, pc, analyze_vars, call_vars, env, told>>

\* the thread takes the next request, of any session
NextRequest(t) ==
  /\ requests[t].pc = "answered"
  /\ requests[t].served < MaxRequests
  /\ \E s \in Sessions : requests' = [requests EXCEPT ![t] = NewRequest(s, requests[t].served + 1)]
  /\ UNCHANGED <<storage, local_file, mind_map_parser, ai_analyzer, objects,
                 resolver_vars, pc, analyze_vars, call_vars, env, told>>

NextApp ==
  \/ \E t \in Threads : LoadParser(t)
  \/ \E t \in Threads : ReturnParser(t)
  \/ \E t \in Threads : StoreAnalyzer(t)
  \/ \E t \in Threads : ReturnAnalyzer(t)
  \/ \E t \in Threads : Answer(t)
  \/ \E t \in Threads : NextRequest(t)

SpecApp == InitApp /\ [][NextApp]_vars

(***************************************************************************)
(* _fuzzy_match_tag called on its own: a candidate string is matched       *)
(* against a list of names with a threshold.                               *)
(***************************************************************************)
\* two names that tie for a candidate such as 'Plan C'
CatalogE == <<TagRec(<<"T","0","0","0","1">>, <<"P","l","a","n"," ","A">>),
              TagRec(<<"T","0","0","0","2">>, <<"P","l","a","n"," ","B">>)>>
FuzzyCatalogs == Catalogs \cup {CatalogE}
\* the thresholds the callers pass (0.75, 0.0), the default (0.85), and 1.0
Thresholds == {Zero, Frac(3, 4), Frac(17, 20), One}
\* candidates: the names, other spellings of them, parts of them, strings
\* that are near a name, strings that share nothing with any name
FirstWord(name) == LET ws == SplitWs(name) IN IF ws = <<>> THEN <<>> ELSE ws[1]
Candidates(names) ==
  UNION {{names[k], Lower(names[k]), TagLine(names[k]), FirstWord(names[k])} : k \in 1..Len(names)}
  \cup {<<>>, <<" ">>, <<"Q","Q">>, NearDeviceLimit, <<"P","l","a","n"," ","C">>,
        <<"R","e","f","u","n","d","s">>}
\* the lists of names the callers pass: the catalog's names; one name
NameLists(pt) == {TagNames(pt), <<>>} \cup {<<TagNames(pt)[k]>> : k \in 1..Len(TagNames(pt))}

InitFuzzy ==
  /\ parser_tags \in FuzzyCatalogs
  /\ response_lines = <<>> /\ result = NoResult
  /\ found_ids = <<>> /\ found_names = <<>>
  /\ pc = "call"
  /\ AnalyzeIdle /\ AppIdle
  /\ \E c \in Candidates(TagNames(parser_tags)) : \E names \in NameLists(parser_tags) :
     \E th \in Thresholds :
       call_args = [extracted_tag |-> c, available_tags |-> names, threshold |-> th]
  /\ call_value = NotCalled

\* _fuzzy_match_tag(extracted_tag, available_tags, threshold)
FuzzyMatch ==
  /\ pc = "call"
  /\ call_value' = FuzzyMatchTag(call_args.extracted_tag, call_args.available_tags,
                                 call_args.threshold)
  /\ pc' = "matched"
  /\ UNCHANGED <<app_vars, resolver_vars, analyze_vars, call_args>>

NextFuzzy == FuzzyMatch

SpecFuzzy == InitFuzzy /\ [][NextFuzzy]_vars

(***************************************************************************)
(* _normalize_tag_id called on its own, and once more on what it returned  *)
(***************************************************************************)
\* the longest string normalized
MaxIdLen == 3
IdChars == {"T", "t", "0", "1", "9", "_", "-", "a", " "}
IdStrings == UNION {[1..n -> IdChars] : n \in 0..MaxIdLen}

InitNormalize ==
  /\ parser_tags = <<>> /\ response_lines = <<>> /\ result = NoResult
  /\ found_ids = <<>> /\ found_names = <<>>
  /\ pc = "call"
  /\ AnalyzeIdle /\ AppIdle
  /\ \E x \in IdStrings : call_args = [tag_id |-> x]
  /\ call_value = <<>>

\* _normalize_tag_id(tag_id)
NormalizeId ==
  /\ pc = "call"
  /\ call_value' = <<NormalizeTagId(call_args.tag_id)>>
  /\ pc' = "normalized"
  /\ UNCHANGED <<app_vars, resolver_vars, analyze_vars, call_args>>

\* _normalize_tag_id of the id returned
NormalizeIdAgain ==
  /\ pc = "normalized"
  /\ call_value[1] # None
  /\ call_value' = Append(call_value, NormalizeTagId(call_value[1]))
  /\ pc' = "renormalized"
  /\ UNCHANGED <<app_vars, resolver_vars, analyze_vars, call_args>>

NextNormalize == NormalizeId \/ NormalizeIdAgain

SpecNormalize == InitNormalize /\ [][NextNormalize]_vars

(***************************************************************************)
(* The identifier scan on texts that name several ids in several spellings *)
(***************************************************************************)
\* the most ids a text names
MaxIds == 3
IdTokens == {<<"T","0","0","0","1">>, <<"T","9">>, <<"t","0","0","0","9">>, <<"(","T","2",")">>,
             <<"t","a","g"," ","T","1","2">>, <<"T","0","0","2">>}
\* the tokens, separated by a comma and a space
ScanTexts == {Join(ts, <<",", " ">>) : ts \in UNION {[1..n -> IdTokens] : n \in 1..MaxIds}}

InitScan ==
  /\ parser_tags \in {CatalogB, CatalogD}
  /\ \E text \in ScanTexts : response_lines = <<text>>
  /\ result = NoResult
  /\ found_ids = <<>> /\ found_names = <<>>
  /\ pc = "text"
  /\ AnalyzeIdle /\ AppIdle /\ CallIdle

SpecScan == InitScan /\ [][NextIds]_vars

(***************************************************************************)
(* The resolver on replies that carry a reference section and names that   *)
(* are near a catalog name                                                 *)
(***************************************************************************)
\* three names, two of which differ in the trailing parenthetical only
CatalogF == <<TagRec(<<"T","0","0","0","1">>, <<"R","e","f","u","n","d"," ","(","F","u","l","l",")">>),
              TagRec(<<"T","0","0","0","2">>, <<"R","e","f","u","n","d"," ","(","P","a","r","t","i","a","l",")">>),
              TagRec(<<"T","0","0","0","3">>, <<"D","e","v","i","c","e"," ","L","i","m","i","t"," ","E","x","c","e","e","d","e","d">>)>>
\* a name of two characters
CatalogG == <<TagRec(<<"T","0","0","0","1">>, <<"D","e","v","i","c","e"," ","L","i","m","i","t"," ","E","x","c","e","e","d","e","d">>),
              TagRec(<<"T","0","0","0","2">>, <<"T","V">>)>>
ReferenceLine(x) == <<"R","e","f","e","r","e","n","c","e",":"," ">> \o x
OrderLines(pt) ==
  {QuotedLine(NearDeviceLimit), TagLine(NearDeviceLimit)} \cup
  UNION {{TagLine(pt[k].tag_name), ReferenceLine(pt[k].tag_id), ReasoningLine(pt[k].tag_name)}
           : k \in 1..Len(pt)}
OrderReplies(pt) == UNION {[1..n -> OrderLines(pt)] : n \in 1..MaxLines}

InitOrder ==
  /\ parser_tags \in {CatalogA, CatalogF, CatalogG}
  /\ response_lines \in OrderReplies(parser_tags)
  /\ result = NoResult
  /\ found_ids = <<>> /\ found_names = <<>>
  /\ pc = "reply"
  /\ AnalyzeIdle /\ AppIdle /\ CallIdle

SpecOrder == InitOrder /\ [][Next]_vars

(***************************************************************************)
(* MindMapParser: _extract_tags and get_all_tags.  A workbook (data_dict)  *)
(* is a list of sheets in the order of the dict; a sheet has a name, its   *)
(* columns and its rows (row k of the list has the index k - 1); a row     *)
(* maps each column to a cell.                                             *)
(***************************************************************************)
\* a cell: a str, the float NaN or None
StrCell(x) == [t |-> "str", v |-> x]
NaNCell    == [t |-> "nan", v |-> <<>>]
NoneCell   == [t |-> "none", v |-> <<>>]
\* str(cell)
PyStr(cell) ==
  CASE cell.t = "str"  -> cell.v
    [] cell.t = "nan"  -> <<"n","a","n">>
    [] cell.t = "none" -> <<"N","o","n","e">>
\* pd.notna(cell)
NotNa(cell) == cell.t \notin {"nan", "none"}

ColFullTagName       == <<"F","u","l","l","_","T","a","g","_","N","a","m","e">>
ColTagID             == <<"T","a","g","_","I","D">>
ColTagLogic          == <<"T","a","g","_","L","o","g","i","c">>
ColCustomerScenarios == <<"C","u","s","t","o","m","e","r","_","S","c","e","n","a","r","i","o","s">>
ColSheetName         == <<"S","h","e","e","t","_","N","a","m","e">>
SheetPrefix          == <<"_","s","h","e","e","t","_">>
Underscore           == <<"_">>

\* the names of lines 167 and 221: the list without 'n/a'
NameSentinelsOfSummary == {<<"n","a","n">>, <<"n","o","n","e">>, <<>>}
\* the list a tag_value is tested against at lines 95 and 143
NameSentinels == {<<"n","a","n">>, <<"n","o","n","e">>, <<>>, <<"n","/","a">>}

\* key in self.tags
HasKey(tags, key) == \E k \in 1..Len(tags) : tags[k].key = key
\* self.tags[key] = value
DictSet(tags, key, value) ==
  IF HasKey(tags, key)
  THEN [k \in 1..Len(tags) |-> IF tags[k].key = key THEN [key |-> key, value |-> value]
                                ELSE tags[k]]
  ELSE Append(tags, [key |-> key, value |-> value])
\* if key not in self.tags: self.tags[key] = value
DictSetDefault(tags, key, value) ==
  IF HasKey(tags, key) THEN tags ELSE Append(tags, [key |-> key, value |-> value])

\* the value of a column that may be absent or hold no value
CellOr(sheet, row, col, default) ==
  IF InSeq(col, sheet.columns) /\ NotNa(row[col]) THEN Strip(PyStr(row[col])) ELSE default

\* lines 88-124: one row of a sheet of the organized format
OrganizedRow(tags, sheet, row, idx) ==
  IF ~InSeq(ColFullTagName, sheet.columns) THEN tags
  ELSE
  Let(Strip(PyStr(row[ColFullTagName])), LAMBDA tag_value :
  Let(CellOr(sheet, row, ColTagID, <<"T">> \o ZFill(DigitsOf(idx), 4)), LAMBDA tag_id :
    IF tag_value # <<>> /\ Lower(tag_value) \notin NameSentinels
    THEN DictSetDefault(tags,
           IF InSeq(ColTagID, sheet.columns)
           THEN tag_id \o Underscore \o tag_value \o Underscore \o DigitsOf(idx)
           ELSE tag_value \o Underscore \o sheet.name \o Underscore \o DigitsOf(idx),
           [has_id |-> TRUE, tag_id |-> tag_id, tag_name |-> tag_value,
            sheet |-> CellOr(sheet, row, ColSheetName, sheet.name),
            row |-> idx,
            logic |-> CellOr(sheet, row, ColTagLogic, <<>>),
            customer_scenarios |-> CellOr(sheet, row, ColCustomerScenarios, <<>>),
            full_row |-> row])
    ELSE tags))
RECURSIVE OrganizedRows(_, _, _)
OrganizedRows(tags, sheet, k) ==
  IF k > Len(sheet.rows) THEN tags
  ELSE OrganizedRows(OrganizedRow(tags, sheet, sheet.rows[k], k - 1), sheet, k + 1)

RECURSIVE LogicParts(_, _, _)
LogicParts(row, columns, k) ==
  IF k > Len(columns) THEN <<>>
  ELSE Let(Strip(PyStr(row[columns[k]])), LAMBDA value :
         (IF value # <<>> /\ Lower(value) \notin NameSentinelsOfSummary
          THEN <<columns[k] \o <<":", " ">> \o value>> ELSE <<>>)
         \o LogicParts(row, columns, k + 1))
ExtractRowLogic(row, columns) == Join(LogicParts(row, columns, 1), <<" ", "|", " ">>)

TagKeywords == {<<"t","a","g">>, <<"c","a","t","e","g","o","r","y">>, <<"t","y","p","e">>, <<"l","a","b","e","l">>, <<"c","l","a","s","s","i","f","i","c","a","t","i","o","n">>}
\* lines 128-136
TagColumns(columns) ==
  Let(SelectSeq(columns, LAMBDA col : \E keyword \in TagKeywords : Contains(keyword, Lower(col))),
      LAMBDA tag_columns :
    IF tag_columns = <<>> /\ Len(columns) > 0 THEN <<columns[1]>> ELSE tag_columns)
\* lines 141-156: one row for one tag column
LegacyRow(tags, sheet, col, row, idx) ==
  Let(Strip(PyStr(row[col])), LAMBDA tag_value :
    IF tag_value # <<>> /\ Lower(tag_value) \notin NameSentinels
    THEN DictSetDefault(tags,
           tag_value \o Underscore \o sheet.name \o Underscore \o DigitsOf(idx),
           [has_id |-> FALSE, tag_id |-> <<>>, tag_name |-> tag_value,
            sheet |-> sheet.name, row |-> idx,
            logic |-> ExtractRowLogic(row, sheet.columns),
            full_row |-> row])
    ELSE tags)
RECURSIVE LegacyRows(_, _, _, _)
LegacyRows(tags, sheet, col, k) ==
  IF k > Len(sheet.rows) THEN tags
  ELSE LegacyRows(LegacyRow(tags, sheet, col, sheet.rows[k], k - 1), sheet, col, k + 1)
RECURSIVE LegacyColumns(_, _, _, _)
LegacyColumns(tags, sheet, tag_columns, c) ==
  IF c > Len(tag_columns) THEN tags
  ELSE LegacyColumns(LegacyRows(tags, sheet, tag_columns[c], 1), sheet, tag_columns, c + 1)

IsOrganizedFormat(columns) ==
  \E col \in {ColFullTagName, ColTagLogic, ColCustomerScenarios} : InSeq(col, columns)

\* The `else:` of line 125 has no statement under it: lines 127 to 156 stand
\* at the depth of the `if`.  The block is read either as the branch of the
\* else ("else") or as what its depth says, statements after the if ("after").
LegacyBlockReadings == {"else", "after"}

\* lines 59-160: one sheet
ExtractSheet(tags, sheet, reading) ==
  IF Len(sheet.rows) = 0 \/ Len(sheet.columns) = 0 THEN tags
  ELSE
  Let(DictSet(tags, SheetPrefix \o sheet.name,
              [type |-> "sheet", data |-> sheet.rows, columns |-> sheet.columns]),
      LAMBDA tags1 :
  Let(IF IsOrganizedFormat(sheet.columns) THEN OrganizedRows(tags1, sheet, 1) ELSE tags1,
      LAMBDA tags2 :
    IF IsOrganizedFormat(sheet.columns) /\ reading = "else" THEN tags2
    ELSE LegacyColumns(tags2, sheet, TagColumns(sheet.columns), 1)))
RECURSIVE ExtractSheets(_, _, _, _)
ExtractSheets(tags, data, k, reading) ==
  IF k > Len(data) THEN tags
  ELSE ExtractSheets(ExtractSheet(tags, data[k], reading), data, k + 1, reading)
\* MindMapParser._extract_tags: self.tags as the list of its items
ExtractTags(data, reading) == ExtractSheets(<<>>, data, 1, reading)

\* the values of self.tags whose key does not start with '_sheet_'
TagValues(tags) ==
  Let(SelectSeq(tags, LAMBDA e : ~StartsWith(e.key, SheetPrefix)), LAMBDA kept :
    [k \in 1..Len(kept) |-> kept[k].value])
\* MindMapParser.get_all_tags on self.tags
GetAllTagsOfParser(tags) == GetAllTags(TagValues(tags))

(***************************************************************************)
(* The parser as a state machine: a workbook arrives, the constructor      *)
(* extracts the tags, get_all_tags is called.                              *)
(***************************************************************************)
\* the longest sheet of the model, in rows
MaxRows == 2
NameCells == {StrCell(<<"B","i","l","l","i","n","g">>), StrCell(<<"R","e","f","u","n","d"," ","R","e","q","u","e","s","t">>), StrCell(<<" ","N","/","A"," ">>), StrCell(<<"N","a","N">>),
              StrCell(<<"n","o","n","e">>), StrCell(<<" ", " ">>), NaNCell, NoneCell}
IdCells == {StrCell(<<"T","0","0","0","1">>), StrCell(<<" ","T","9">>), NaNCell}
NoteCells == {StrCell(<<"w","h","e","n"," ","b","i","l","l","e","d">>), NaNCell}
ColTag   == <<"T","a","g">>
ColName  == <<"N","a","m","e">>
ColNotes == <<"N","o","t","e","s">>
CellsOf(col) ==
  IF col \in {ColFullTagName, ColTag, ColName} THEN NameCells
  ELSE IF col = ColTagID THEN IdCells
  ELSE NoteCells
ColumnLists == {<<ColTagID, ColFullTagName>>, <<ColFullTagName, ColTagLogic>>,
                <<ColTagLogic>>, <<ColTag, ColNotes>>, <<ColName, ColNotes>>}
ColumnSet(columns) == {columns[k] : k \in 1..Len(columns)}
RowsOf(columns) ==
  {row \in [ColumnSet(columns) -> NameCells \cup IdCells \cup NoteCells] :
     \A col \in ColumnSet(columns) : row[col] \in CellsOf(col)}
SheetsOf(name, columns, n) ==
  {[name |-> name, columns |-> columns, rows |-> rows] : rows \in [1..n -> RowsOf(columns)]}
SheetPlans == <<"P","l","a","n","s">>
SheetOther == <<"O","t","h","e","r">>
\* workbooks of one sheet, and of two sheets of one row
Workbooks ==
  UNION {{<<sheet>> : sheet \in SheetsOf(SheetPlans, columns, n)}
           : columns \in ColumnLists, n \in 0..MaxRows}
  \cup {<<a, b>> : a \in SheetsOf(SheetPlans, <<ColTagID, ColFullTagName>>, 1),
                   b \in SheetsOf(SheetOther, <<ColTagID, ColFullTagName>>, 1)
                           \cup SheetsOf(SheetOther, <<ColTag, ColNotes>>, 1)}

InitCatalog ==
  /\ call_args \in {[data_dict |-> data] : data \in Workbooks}
  /\ call_value = NotCalled
  /\ pc = "data"
  /\ parser_tags = <<>> /\ response_lines = <<>> /\ result = NoResult
  /\ found_ids = <<>> /\ found_names = <<>>
  /\ AnalyzeIdle /\ AppIdle

\* MindMapParser(data_dict=...): __init__ runs _extract_tags
Construct ==
  /\ pc = "data"
  /\ \E reading \in LegacyBlockReadings :
       mind_map_parser' = [obj |-> 1, tags |-> ExtractTags(call_args.data_dict, reading)]
  /\ objects' = 1
  /\ pc' = "constructed"
  /\ UNCHANGED <<call_vars, resolver_vars, analyze_vars, storage, local_file,
                 ai_analyzer, requests, env, told>>

\* mind_map_parser.get_all_tags()
CallGetAllTags ==
  /\ pc = "constructed"
  /\ call_value' = GetAllTagsOfParser(mind_map_parser.tags)
  /\ pc' = "tags"
  /\ UNCHANGED <<app_vars, call_args, resolver_vars, analyze_vars>>

NextCatalog == Construct \/ CallGetAllTags
SpecCatalog == InitCatalog /\ [][NextCatalog]_vars

(***************************************************************************)
(* app.py as a server: the routes /api/upload-mindmap, /api/check-mindmap  *)
(* and /api/analyze, the storage files with their timestamps, and          *)
(* cleanup_old_sessions.  A session sends its requests one after the       *)
(* other; requests of different sessions are handled by threads that share *)
(* the globals mind_map_parser and ai_analyzer, so a step of a handler     *)
(* ends where a global has been assigned or read.                          *)
(***************************************************************************)
\* the age in seconds beyond which cleanup_old_sessions removes a file
Day == 86400
\* the seconds that pass when time passes between two requests
ClockStep == 90000
\* the requests the server handles
MaxServed == 2

\* mind_map_data of an upload: a dict of sheets, or a value that is no dict
JsonDict(sheets) == [t |-> "dict", sheets |-> sheets]
JsonOther == [t |-> "other", sheets |-> <<>>]
\* sheet_data of a sheet: a list of rows, each a dict with the keys columns,
\* or a value that is no list
JsonSheet(name, columns, rows) == [name |-> name, list |-> TRUE, columns |-> columns, rows |-> rows]
JsonNoList(name) == [name |-> name, list |-> FALSE, columns |-> <<>>, rows |-> <<>>]
\* the dict of a row
JsonRow(columns, cells) ==
  [col \in ColumnSet(columns) |-> cells[CHOOSE k \in 1..Len(columns) : columns[k] = col]]

\* line 244: the row has a value that is not empty
RowHasValue(sheet, row) ==
  \E k \in 1..Len(sheet.columns) :
    /\ Strip(PyStr(row[sheet.columns[k]])) # <<>>
    /\ Lower(PyStr(row[sheet.columns[k]])) \notin {<<"n","a","n">>, <<"n","o","n","e">>, <<>>}
\* lines 237-250
HasValidSheet(mind_map_data) ==
  \E k \in 1..Len(mind_map_data.sheets) :
    Let(mind_map_data.sheets[k], LAMBDA sheet :
      /\ sheet.list /\ Len(sheet.rows) > 0
      /\ \E r \in 1..Len(sheet.rows) : Len(sheet.columns) > 0 /\ RowHasValue(sheet, sheet.rows[r]))

\* the body of an upload request
NotJsonBody == [t |-> "not_json", mind_map_data |-> JsonOther]
EmptyBody   == [t |-> "empty", mind_map_data |-> JsonOther]
NoKeyBody   == [t |-> "no_key", mind_map_data |-> JsonOther]
DataBody(mind_map_data) == [t |-> "data", mind_map_data |-> mind_map_data]
\* lines 217-257: the error of a body that is rejected before anything is
\* stored, "" for a body that passes
PrecheckError(body) ==
  CASE body.t = "not_json" -> "Content-Type must be application/json"
    [] body.t = "empty" -> "No data provided. Please ensure the request contains JSON data."
    [] body.t = "no_key" -> "No mind map data provided. The request must include mind_map_data."
    [] body.mind_map_data.t # "dict" -> "Invalid mind map data format. Expected a dictionary of sheets."
    [] Len(body.mind_map_data.sheets) = 0 -> "Mind map data is empty. Please ensure the Excel file has data."
    [] ~HasValidSheet(body.mind_map_data) -> "No valid data found"
    [] OTHER -> ""

\* a storage file (json.dump writes and json.load reads strings and null as
\* they are), and the absent file
StoredFile(data, timestamp) == [exists |-> TRUE, data |-> data, timestamp |-> timestamp]
NoFile == [exists |-> FALSE]

\* get_mind_map_parser, lines 73-113: the sheets of the stored data as
\* DataFrames, None when the data is no dict or no sheet is left
ToDataFrames(data_dict) ==
  IF data_dict.t # "dict" \/ Len(data_dict.sheets) = 0 THEN None
  ELSE Let(SelectSeq(data_dict.sheets,
                     LAMBDA sheet : sheet.list /\ Len(sheet.rows) > 0 /\ Len(sheet.columns) > 0),
           LAMBDA kept :
         [k \in 1..Len(kept) |->
            [name |-> kept[k].name, columns |-> kept[k].columns, rows |-> kept[k].rows]])

\* MindMapParser(data_dict=...): a new object; its tags are what
\* _extract_tags makes of its data
NewParser(n, data) == [obj |-> n, data |-> data]

\* the answers of the routes
ErrorAnswer(status, error) == [status |-> status, error |-> error]
UploadAnswer(sheets, tags) == [status |-> 200, success |-> TRUE, sheets |-> sheets, tags |-> tags]
CheckAnswer(loaded, tags_count) == [status |-> 200, loaded |-> loaded, tags_count |-> tags_count]
AnalyzeAnswer(invoked) == [status |-> 200, invoked |-> invoked]

\* what a session knows from its last answers: the 'tags' of its last
\* successful upload and the AIAnalyzer its last analyze request was given,
\* 0 when there is none or an upload of the session has begun since
NothingTold == [tags |-> 0, analyzer |-> 0]

Row1(columns, cells) == <<JsonRow(columns, cells)>>
\* uploads: one tag; two tags in the organized format and a sheet that is no
\* list; a row whose name is 'N/A'; rows without a value
UploadOne == JsonDict(<<JsonSheet(SheetPlans, <<ColTag, ColNotes>>,
               Row1(<<ColTag, ColNotes>>, <<StrCell(<<"B","i","l","l","i","n","g">>), NoneCell>>))>>)
UploadTwo == JsonDict(<<JsonNoList(SheetOther),
               JsonSheet(SheetPlans, <<ColFullTagName, ColTagLogic>>,
                 Row1(<<ColFullTagName, ColTagLogic>>, <<StrCell(<<"B","i","l","l","i","n","g">>), StrCell(<<"w","h","e","n"," ","b","i","l","l","e","d">>)>>)
                 \o Row1(<<ColFullTagName, ColTagLogic>>, <<StrCell(<<"R","e","f","u","n","d"," ","R","e","q","u","e","s","t">>), NoneCell>>))>>)
UploadNoTags == JsonDict(<<JsonSheet(SheetPlans, <<ColTag, ColNotes>>,
                  Row1(<<ColTag, ColNotes>>, <<StrCell(<<" ","N","/","A"," ">>), StrCell(<<"w","h","e","n"," ","b","i","l","l","e","d">>)>>))>>)
UploadBlank == JsonDict(<<JsonSheet(SheetPlans, <<ColTag, ColNotes>>,
                 Row1(<<ColTag, ColNotes>>, <<StrCell(<<" ", " ">>), NoneCell>>))>>)
UploadBodies == {NoKeyBody, DataBody(JsonOther), DataBody(UploadBlank),
                 DataBody(UploadNoTags), DataBody(UploadOne), DataBody(UploadTwo)}
\* the workbook 'List of tags 2025.xlsx' of the working directory
LocalWorkbook == ToDataFrames(UploadTwo)
\* the data a parser of the server is constructed with
ServerWorkbooks ==
  {ToDataFrames(body.mind_map_data) : body \in {b \in UploadBodies : b.t = "data"}}
  \cup {LocalWorkbook}
\* len(get_all_tags()) of a parser with the data: the tags are what
\* _extract_tags made of the data when the parser was constructed, the same
\* for every parser with this data
TagsCountOf ==
  [reading \in LegacyBlockReadings |->
     [data \in ServerWorkbooks |-> Len(GetAllTagsOfParser(ExtractTags(data, reading)))]]
\* len(parser.get_all_tags())
TagsCount(parser, reading) == TagsCountOf[reading][parser.data]

ScenarioBlank == <<" ","\n">>
ScenarioFailed == <<"M","y"," ","p","a","y","m","e","n","t"," ","f","a","i","l","e","d">>
\* a request: where its handler stands, what it was sent, what the handler
\* holds in its local variables, and what the session knew when it sent it
ServerRequest(route, body, scenario, lang, knows, file, n) ==
  [pc |-> IF route = "upload" THEN "start" ELSE "load",
   route |-> route, body |-> body, scenario |-> scenario, language |-> lang,
   parser |-> NoObject, analyzer |-> NoObject, answer |-> NoAnswer,
   loaded |-> FALSE, knows |-> knows, before |-> file, served |-> n]
NoRequest == [pc |-> "idle", route |-> "none", answer |-> NoAnswer, served |-> 0]
\* the handler returns the answer: its local variables are gone
Answered(r, answer) ==
  [r EXCEPT !.pc = "answered", !.answer = answer, !.parser = NoObject,
            !.analyzer = NoObject, !.body = NotJsonBody, !.before = NoFile]
ServerRequests(knows, file, n) ==
  {ServerRequest("upload", body, <<>>, "en", NothingTold, file, n) : body \in UploadBodies}
  \cup {ServerRequest("check", NotJsonBody, <<>>, "en", knows, file, n)}
  \cup {ServerRequest("analyze", NotJsonBody, text[1], text[2], knows, file, n) :
          text \in {<<ScenarioBlank, "en">>, <<ScenarioBlank, "ar">>, <<ScenarioFailed, "en">>}}
\* the requests that have arrived
RECURSIVE ServedBy(_)
ServedBy(S) ==
  IF S = {} THEN 0
  ELSE Let(CHOOSE s \in S : TRUE, LAMBDA s : requests[s].served + ServedBy(S \ {s}))
InFlight(s) == requests[s].pc \notin {"idle", "answered"}

\* the server has started; a session that has a storage file uploaded it a
\* moment ago and was told the number of its tags
InitServer ==
  /\ parser_tags = <<>> /\ response_lines = <<>> /\ result = NoResult
  /\ found_ids = <<>> /\ found_names = <<>>
  /\ pc = "serving"
  /\ AnalyzeIdle /\ CallIdle
  /\ storage \in {[s \in Sessions |-> IF s = "s1" THEN file ELSE NoFile] :
                    file \in {NoFile, StoredFile(UploadOne, 0)}}
  /\ local_file \in {None, LocalWorkbook}
  /\ mind_map_parser = NoObject /\ ai_analyzer = NoObject
  /\ requests = [s \in Sessions |-> NoRequest]
  /\ objects = 0
  /\ env \in {[api_key |-> key, reading |-> reading] :
                key \in BOOLEAN, reading \in LegacyBlockReadings}
  /\ told = [s \in Sessions |->
               IF storage[s].exists
               THEN [tags |-> TagsCount(NewParser(0, ToDataFrames(storage[s].data)), env.reading),
                     analyzer |-> 0]
               ELSE NothingTold]

\* a request of the session arrives; an upload ends what the session knew
Arrive(s) ==
  /\ ~InFlight(s)
  /\ ServedBy(Sessions) < MaxServed
  /\ \E r \in ServerRequests(told[s], storage[s], requests[s].served + 1) :
       /\ requests' = [requests EXCEPT ![s] = r]
       /\ told' = IF r.route = "upload" THEN [told EXCEPT ![s] = NothingTold] ELSE told
  /\ UNCHANGED <<storage, local_file, mind_map_parser, ai_analyzer, objects, env,
                 resolver_vars, pc, analyze_vars, call_vars>>

\* upload_mindmap, lines 215-285: a body that fails a check is answered 400;
\* one that passes is written to the storage file of the session with the
\* time, and the global mind_map_parser is cleared
StoreUpload(s) ==
  /\ requests[s].pc = "start"
  /\ IF PrecheckError(requests[s].body) # ""
       THEN /\ requests' = [requests EXCEPT ![s] = Answered(requests[s],
                 ErrorAnswer(400, PrecheckError(requests[s].body)))]
            /\ UNCHANGED <<storage, mind_map_parser>>
       ELSE /\ storage' = [storage EXCEPT
                 ![s] = StoredFile(requests[s].body.mind_map_data, clock)]
            /\ mind_map_parser' = NoObject
            /\ requests' = [requests EXCEPT ![s].pc = "load"]
  /\ UNCHANGED <<local_file, ai_analyzer, objects, env, told,
                 resolver_vars, pc, analyze_vars, call_vars>>

\* get_mind_map_parser up to the assignment of the global: the parser of the
\* storage file of the session, or, when there is no such file, of the
\* workbook of the working directory; None when neither gives one
LoadCatalog(s) ==
  /\ requests[s].pc = "load"
  /\ Let(IF storage[s].exists THEN ToDataFrames(storage[s].data) ELSE local_file,
         LAMBDA data :
       IF data = None
         THEN /\ requests' = [requests EXCEPT ![s].pc = "parser_returned"]
              /\ UNCHANGED <<mind_map_parser, objects>>
         ELSE /\ mind_map_parser' = NewParser(objects + 1, data)
              /\ objects' = objects + 1
              /\ requests' = [requests EXCEPT ![s].loaded = TRUE,
                                              ![s].pc = "parser_stored"])
  /\ UNCHANGED <<storage, local_file, ai_analyzer, env, told,
                 resolver_vars, pc, analyze_vars, call_vars>>

\* return mind_map_parser: the global as it is now
ReturnCatalog(s) ==
  /\ requests[s].pc = "parser_stored"
  /\ requests' = [requests EXCEPT ![s].parser = mind_map_parser,
                                  ![s].pc = "parser_returned"]
  /\ UNCHANGED <<storage, local_file, mind_map_parser, ai_analyzer, objects, env, told,
                 resolver_vars, pc, analyze_vars, call_vars>>

\* upload_mindmap, lines 293-339: without a parser, or with no sheet or no
\* tag, the storage file is removed and the answer is 400; else the answer
\* tells the numbers of sheets and tags
AnswerUpload(s) ==
  /\ requests[s].pc = "parser_returned" /\ requests[s].route = "upload"
  /\ IF requests[s].parser = NoObject
       THEN /\ storage' = [storage EXCEPT ![s] = NoFile]
            /\ requests' = [requests EXCEPT ![s] = Answered(requests[s],
                 ErrorAnswer(400, "Failed to parse mind map data"))]
            /\ UNCHANGED <<mind_map_parser, told>>
       ELSE Let(TagsCount(requests[s].parser, env.reading), LAMBDA total_tags :
            IF Len(requests[s].parser.data) = 0 \/ total_tags = 0
              THEN /\ storage' = [storage EXCEPT ![s] = NoFile]
                   /\ mind_map_parser' = NoObject
                   /\ requests' = [requests EXCEPT ![s] = Answered(requests[s],
                        ErrorAnswer(400, "No valid data found"))]
                   /\ told' = told
              ELSE /\ requests' = [requests EXCEPT ![s] = Answered(requests[s],
                        UploadAnswer(Len(requests[s].parser.data), total_tags))]
                   /\ told' = [told EXCEPT ![s].tags = total_tags]
                   /\ UNCHANGED <<storage, mind_map_parser>>)
  /\ UNCHANGED <<local_file, ai_analyzer, objects, env,
                 resolver_vars, pc, analyze_vars, call_vars>>

\* check_mindmap, lines 386-398
AnswerCheck(s) ==
  /\ requests[s].pc = "parser_returned" /\ requests[s].route = "check"
  /\ IF requests[s].parser = NoObject
       THEN requests' = [requests EXCEPT ![s] = Answered(requests[s], CheckAnswer(FALSE, 0))]
       ELSE requests' = [requests EXCEPT ![s] = Answered(requests[s],
              CheckAnswer(TRUE, TagsCount(requests[s].parser, env.reading)))]
  /\ UNCHANGED <<storage, local_file, mind_map_parser, ai_analyzer, objects, env, told,
                 resolver_vars, pc, analyze_vars, call_vars>>

\* get_ai_analyzer after parser = get_mind_map_parser(), up to the
\* assignment of the global: without a parser the route answers 400; a new
\* AIAnalyzer is constructed when there is none or its parser is another
\* object, and its constructor raises when there is no GEMINI_API_KEY
GetAnalyzer(s) ==
  /\ requests[s].pc = "parser_returned" /\ requests[s].route = "analyze"
  /\ IF requests[s].parser = NoObject
       THEN /\ requests' = [requests EXCEPT ![s] = Answered(requests[s], NoMindMapAnswer)]
            /\ UNCHANGED <<ai_analyzer, objects>>
       ELSE IF ai_analyzer = NoObject \/ ai_analyzer.mind_map_parser # requests[s].parser
         THEN IF env.api_key
                THEN /\ ai_analyzer' = AIAnalyzer(objects + 1, requests[s].parser)
                     /\ objects' = objects + 1
                     /\ requests' = [requests EXCEPT ![s].pc = "analyzer_stored"]
                ELSE /\ requests' = [requests EXCEPT ![s] = Answered(requests[s],
                          ErrorAnswer(500, "AI Analysis Failed"))]
                     /\ UNCHANGED <<ai_analyzer, objects>>
         ELSE /\ requests' = [requests EXCEPT ![s].pc = "analyzer_stored"]
              /\ UNCHANGED <<ai_analyzer, objects>>
  /\ UNCHANGED <<storage, local_file, mind_map_parser, env, told,
                 resolver_vars, pc, analyze_vars, call_vars>>

\* return ai_analyzer: the global as it is now
ReturnGlobalAnalyzer(s) ==
  /\ requests[s].pc = "analyzer_stored"
  /\ requests' = [requests EXCEPT ![s].analyzer = ai_analyzer,
                                  ![s].pc = "analyzer_returned"]
  /\ told' = [told EXCEPT ![s].analyzer = ai_analyzer.obj]
  /\ UNCHANGED <<storage, local_file, mind_map_parser, ai_analyzer, objects, env,
                 resolver_vars, pc, analyze_vars, call_vars>>

\* line 413 with the strip left out: only the empty scenario is blank
IsBlankWithoutStrip(scenario) == scenario = <<>>
\* line 413: not scenario.strip()
IsBlank(scenario) == Strip(scenario) = <<>>

\* analyze_scenario of app.py, lines 409-439: a blank scenario is answered
\* 400; else analyzer.analyze_scenario runs, which invokes the model unless
\* it fails before the call (an image that cannot be opened)
AnswerAnalyze(s) ==
  /\ requests[s].pc = "analyzer_returned"
  /\ IF IsBlank(requests[s].scenario)
       THEN /\ requests' = [requests EXCEPT ![s] = Answered(requests[s],
                 ErrorAnswer(400, BlankScenarioResult(requests[s].language).error))]
            /\ calls' = calls
       ELSE \E invoked \in BOOLEAN :
            /\ requests' = [requests EXCEPT ![s] = Answered(requests[s],
                 AnalyzeAnswer(invoked))]
            /\ calls' = IF invoked THEN Append(calls, Invocation(0, TRUE, clock)) ELSE calls
  /\ UNCHANGED <<storage, local_file, mind_map_parser, ai_analyzer, objects, env, told, resolver_vars, pc, scenario_text, language,
                 safety_settings, retry, last_attempt, exc, ai_response, parse_runs,
                 returned, clock, request_times, call_vars>>

\* time passes between two requests, until more than a day has passed
Tick ==
  /\ \A s \in Sessions : ~InFlight(s)
  /\ clock <= Day
  /\ clock' = clock + ClockStep
  /\ UNCHANGED <<app_vars, resolver_vars, pc, scenario_text, language,
                 safety_settings, retry, last_attempt, exc, ai_response, parse_runs,
                 returned, request_times, calls, call_vars>>

\* lines 484-508: the storage files cleanup_old_sessions leaves
CleanedStorage(files, current_time) ==
  [s \in DOMAIN files |->
     IF files[s].exists /\ current_time - files[s].timestamp > Day THEN NoFile ELSE files[s]]
\* the process is started again: the module is imported, which clears the
\* globals and runs cleanup_old_sessions (line 511); nothing else runs it
Restart ==
  /\ \A s \in Sessions : ~InFlight(s)
  /\ storage' = CleanedStorage(storage, clock)
  /\ mind_map_parser' = NoObject /\ ai_analyzer' = NoObject
  /\ told' = [s \in Sessions |->
                [tags |-> IF CleanedStorage(storage, clock)[s].exists THEN told[s].tags ELSE 0,
                 analyzer |-> 0]]
  /\ UNCHANGED <<local_file, requests, objects, env,
                 resolver_vars, pc, analyze_vars, call_vars>>

NextServer ==
  \/ \E s \in Sessions : Arrive(s)
  \/ \E s \in Sessions : StoreUpload(s)
  \/ \E s \in Sessions : LoadCatalog(s)
  \/ \E s \in Sessions : ReturnCatalog(s)
  \/ \E s \in Sessions : AnswerUpload(s)
  \/ \E s \in Sessions : AnswerCheck(s)
  \/ \E s \in Sessions : GetAnalyzer(s)
  \/ \E s \in Sessions : ReturnGlobalAnalyzer(s)
  \/ \E s \in Sessions : AnswerAnalyze(s)
  \/ Tick
  \/ Restart

SpecServer == InitServer /\ [][NextServer]_vars

\* The threads run: a handler that can take its next step takes it, and time
\* passes.  Nothing in app.py runs cleanup_old_sessions again or starts the
\* process again, and no client has to send a request.
SpecServerLive ==
  /\ InitServer /\ [][NextServer]_vars
  /\ \A s \in Sessions :
       /\ WF_vars(StoreUpload(s)) /\ WF_vars(LoadCatalog(s)) /\ WF_vars(ReturnCatalog(s))
       /\ WF_vars(AnswerUpload(s)) /\ WF_vars(AnswerCheck(s)) /\ WF_vars(GetAnalyzer(s))
       /\ WF_vars(ReturnGlobalAnalyzer(s)) /\ WF_vars(AnswerAnalyze(s))
  /\ WF_vars(Tick)

(***************************************************************************)
(* Properties of the resolver                                              *)
(***************************************************************************)
Parsed == pc = "parsed"
\* the tag_name values of the records get_all_tags() returns
CatalogNames ==
  LET all == GetAllTags(parser_tags) IN {all[k].tag_name : k \in 1..Len(all)}
HasLine(l) == \E i \in 1..Len(response_lines) : response_lines[i] = l
NoConfidenceLine == \A i \in 1..Len(response_lines) : response_lines[i] \notin ConfidenceLines
\* the tags the explicit-field strategy and the identifier scan resolve
LabelOrIdTags == ValidateAndMatchTags(parser_tags, ExtractedTags(parser_tags, ResponseText))

\* C1: after _parse_ai_response has run, on any reply and catalog, every
\* element of result['tags'] is verbatim the tag_name of a record that
\* get_all_tags() returns: never an id, a fragment or a near spelling.
C1_TagsAreCatalogNames ==
  Parsed => \A k \in 1..Len(result.tags) : result.tags[k] \in CatalogNames
\* a reply whose candidates include a string that is no catalog name (an id,
\* a near spelling) has been resolved to tags
C1_Witness ==
  /\ Parsed /\ result.tags # <<>>
  /\ LET cands == ExtractedTags(parser_tags, ResponseText)
     IN  \E k \in 1..Len(cands) : cands[k] \notin CatalogNames

\* C2: a reply that holds a line 'Tag: N', N a catalog name, and elsewhere a
\* double-quoted string that fuzzy-matches a different tag M resolves to a
\* tag list whose first element is N.
C2_LabelledTagFirst ==
  Parsed =>
    \A n \in CatalogNames : \A q \in CatalogNames \cup {NearDeviceLimit} :
      LET m == FuzzyMatchTag(q, TagNames(parser_tags), Frac(75, 100))[1]
      IN  (HasLine(TagLine(n)) /\ HasLine(QuotedLine(q)) /\ m # None /\ m # n)
            => (result.tags # <<>> /\ result.tags[1] = n)

\* C3: for every catalog record with id I and name N, the reply
\* 'Tag: I\nConfidence: High' resolves to tags = [N] and confidence 'High'.
C3_IdReplyResolves ==
  Parsed =>
    \A k \in 1..Len(parser_tags) :
      response_lines = <<TagLine(parser_tags[k].tag_id), ConfidenceLine(LevelHigh)>>
        => (result.tags = <<parser_tags[k].tag_name>> /\ result.confidence = "High")

\* the lines in which no strategy finds a tag
TaglessLines == ConfidenceLines \cup {NoTagLine}
TaglessReply == \A i \in 1..Len(response_lines) : response_lines[i] \in TaglessLines
\* the level the last Confidence line of the reply states
StatedConfidence ==
  LET last == CHOOSE i \in 1..Len(response_lines) :
                /\ response_lines[i] \in ConfidenceLines
                /\ \A j \in (i + 1)..Len(response_lines) : response_lines[j] \notin ConfidenceLines
      line == response_lines[last]
  IN  IF line = ConfidenceLine(LevelHigh) THEN "High"
      ELSE IF line = ConfidenceLine(LevelLow) THEN "Low"
      ELSE IF IsArabicText(ResponseText) THEN "High" ELSE "Medium"

\* C4 as stated: a reply in which no strategy finds a tag resolves to
\* tags = [] and confidence 'Low'.
C4_NoTagIsLow ==
  (Parsed /\ TaglessReply) => (result.tags = <<>> /\ result.confidence = "Low")
\* C4, amended: a reply in which no strategy finds a tag resolves to
\* tags = [] and confidence 'Medium', unless the reply carries a Confidence
\* line, whose level is then returned.
C4_NoTagIsMedium ==
  (Parsed /\ TaglessReply) =>
     /\ result.tags = <<>>
     /\ result.confidence = IF NoConfidenceLine THEN "Medium" ELSE StatedConfidence
C4_Witness ==
  Parsed /\ response_lines = <<NoTagLine>> /\ result.tags = <<>> /\ result.confidence = "Medium"

\* C5 as stated: when the reply has no explicit Confidence field, the
\* confidence is 'High' if the explicit-field or the id strategy produced a
\* tag, 'Low' if only the free-text fallback did, 'Medium' otherwise.
C5_DerivedConfidence ==
  (Parsed /\ NoConfidenceLine) =>
     result.confidence = IF LabelOrIdTags # <<>> THEN "High"
                         ELSE IF result.tags # <<>> THEN "Low" ELSE "Medium"
\* C5, amended: when the reply has no explicit Confidence field, the
\* confidence is 'Medium', whichever strategy produced the tags.
C5_DefaultConfidence ==
  (Parsed /\ NoConfidenceLine) => result.confidence = "Medium"
\* a reply without Confidence line whose tag the explicit-field strategy found
C5_Witness ==
  /\ Parsed /\ NoConfidenceLine /\ LabelOrIdTags # <<>>
  /\ \E n \in CatalogNames : HasLine(TagLine(n))

\* C6 as stated: for every catalog record with id I and name N and every
\* alternate spelling of I, _extract_tag_ids_from_text on a text that holds
\* the spelling followed by _get_tag_by_id of the extracted id returns N.
C6_SpellingFindsRecord ==
  pc = "names" =>
    \A k \in 1..Len(parser_tags) :
      response_lines[1] \in IdTexts(parser_tags[k].tag_id)
        => found_names = <<parser_tags[k].tag_name>>
\* the first record of the catalog whose id normalizes like tag_id
FirstWithId(tag_id) ==
  CHOOSE j \in 1..Len(parser_tags) :
    /\ NormalizeTagId(parser_tags[j].tag_id) = NormalizeTagId(tag_id)
    /\ \A i \in 1..(j - 1) : NormalizeTagId(parser_tags[i].tag_id) # NormalizeTagId(tag_id)
\* C6, amended: ... returns the name of the first catalog record whose
\* normalized id equals that of I: N itself unless an earlier record carries
\* the same id in another spelling.
C6_SpellingFindsFirstRecord ==
  pc = "names" =>
    \A k \in 1..Len(parser_tags) :
      response_lines[1] \in IdTexts(parser_tags[k].tag_id)
        => found_names = <<parser_tags[FirstWithId(parser_tags[k].tag_id)].tag_name>>
\* a spelling other than the catalog's own has led to the record's name
C6_Witness ==
  /\ pc = "names"
  /\ \E k \in 1..Len(parser_tags) : \E s \in Spellings(parser_tags[k].tag_id) :
       /\ s # parser_tags[k].tag_id /\ Upper(s) # parser_tags[k].tag_id
       /\ response_lines = <<<<"S","e","e"," ">> \o s \o <<" ","f","o","r"," ","d","e","t","a","i","l","s">>>>
       /\ found_names = <<parser_tags[k].tag_name>>

\* the lines that hold neither a tag label nor an identifier
UnlabelledLines ==
  FixedLines \cup {QuotedLine(n) : n \in CatalogNames} \cup {ReasoningLine(n) : n \in CatalogNames}
\* C7: a reply with no Tag field and no identifier that holds a catalog name
\* N of at least 10 characters in double quotes resolves to tags = [N] with
\* confidence 'Medium' or 'Low'.
C7_QuotedNameResolves ==
  Parsed =>
    \A n \in CatalogNames :
      (/\ Len(n) >= 10 /\ HasLine(QuotedLine(n))
       /\ \A i \in 1..Len(response_lines) : response_lines[i] \in UnlabelledLines)
        => (result.tags = <<n>> /\ result.confidence \in {"Medium", "Low"})

\* C8: for both label styles, 'Tag: N' and 'Recommended Tag(s): N', with or
\* without a leading bullet, a reply whose only tag content is such a line
\* resolves to tags that contain N.
C8_LabelStyles ==
  Parsed =>
    \A n \in CatalogNames :
      response_lines \in {<<TagLine(n)>>, <<RecommendedLine(n)>>,
                          <<BulletRecommendedLine(n)>>}
        => InSeq(n, result.tags)

Levels == {"High", "Medium", "Low"}
\* the value of the last Confidence line of the reply
LastConfidenceValue ==
  LET last == CHOOSE i \in 1..Len(response_lines) :
                /\ response_lines[i] \in ConfidenceLines
                /\ \A j \in (i + 1)..Len(response_lines) : response_lines[j] \notin ConfidenceLines
  IN  AfterColon(response_lines[last])
LevelOf(value) ==
  IF Contains(StrHigh, Lower(value)) THEN "High"
  ELSE IF Contains(StrLow, Lower(value)) THEN "Low" ELSE "Medium"
ArabicLevelOf(value) ==
  IF Contains(StrHigh, Lower(value)) \/ Contains(ArHighM, value) \/ Contains(ArHighF, value)
  THEN "High"
  ELSE IF Contains(StrLow, Lower(value)) \/ Contains(ArLowM, value) \/ Contains(ArLowF, value)
  THEN "Low" ELSE "Medium"
\* C9 as stated: the confidence is one of 'High', 'Medium', 'Low'; when lines
\* hold a confidence label and a colon, it is the level of the value on the
\* last such line: 'High' if the value contains 'high', else 'Low' if it
\* contains 'low', else 'Medium'.
C9_ConfidenceRule ==
  Parsed =>
    /\ result.confidence \in Levels
    /\ ~NoConfidenceLine => result.confidence = LevelOf(LastConfidenceValue)
\* C9, amended: ... in a reply detected as Arabic the value is 'High' also
\* when it contains the Arabic word for high, 'Low' also when it contains the
\* Arabic word for low.
C9_ConfidenceRuleArabic ==
  Parsed =>
    /\ result.confidence \in Levels
    /\ ~NoConfidenceLine =>
         result.confidence = IF IsArabicText(ResponseText)
                             THEN ArabicLevelOf(LastConfidenceValue)
                             ELSE LevelOf(LastConfidenceValue)
\* the last of two Confidence lines, an Arabic one, has decided
C9_Witness ==
  /\ Parsed /\ Len(response_lines) = 2
  /\ response_lines[1] = ConfidenceLine(LevelLow)
  /\ response_lines[2] = ArConfidenceHighLine
  /\ IsArabicText(ResponseText)
  /\ result.confidence = "High"

\* the two shapes of the dict analyze_scenario returns
IsErrorResult(r) == "error" \in DOMAIN r /\ "tags" \notin DOMAIN r
IsResolvedResult(r) ==
  /\ {"tags", "confidence", "full_response"} \subseteq DOMAIN r
  /\ "error" \notin DOMAIN r
\* a text attribute that holds a character other than white space
HasText(t) == t.k = "str" /\ \E i \in 1..Len(t.s) : t.s[i] \notin WhiteSet
\* an invocation of the model that answers with a candidate stopped for SAFETY
CallBlocked(o) ==
  /\ o.k = "response" /\ o.candidates
  /\ o.finish_reason \in {FrInt(2), FrStr(StrSAFETY), FrStr(<<"2">>)}
\* an invocation that answers without text
CallYieldsNoText(o) == o.k = "response" /\ ~HasText(o.text) /\ ~HasText(o.part_text)
\* the last invocation was blocked, timed out, raised, or yielded no text
FailedCall(o) == o.k \in {"slow", "raise", "none"} \/ CallBlocked(o) \/ CallYieldsNoText(o)
\* C10: analyze_scenario never raises, and what it returns is an error
\* result (has 'error', no 'tags') or a resolved result (has 'tags',
\* 'confidence' and 'full_response', no 'error'); when the model call is
\* blocked by safety filters, times out, raises or yields no text,
\* _parse_ai_response has not run and what is returned is an error result.
C10_TwoShapesFailedCallNotParsed ==
  /\ pc # "escaped"
  /\ pc = "returned" => IsErrorResult(returned) \/ IsResolvedResult(returned)
  /\ FailedCall(last_attempt) =>
       /\ parse_runs = 0
       /\ pc = "returned" => IsErrorResult(returned)
  /\ exc # NoExc => parse_runs = 0 /\ (pc = "returned" => IsErrorResult(returned))
  /\ parse_runs > 0 => pc = "returned" /\ IsResolvedResult(returned) /\ HasText(TextStr(ai_response))
\* the initial request and the five retries were all blocked, and the
\* error result for a safety block was returned without a parse
C10_Witness ==
  /\ pc = "returned" /\ retry = LastRetry /\ CallBlocked(last_attempt)
  /\ HasText(last_attempt.text)
  /\ IsErrorResult(returned)
  /\ returned.error = "Content Blocked by Safety Filters"
  /\ parse_runs = 0

(***************************************************************************)
(* Properties of the server                                                *)
(***************************************************************************)
\* the request of thread t holds an analyzer and its session has a storage file
HoldsAnalyzer(t) ==
  /\ requests[t].pc \in {"analyzer_returned", "answered"}
  /\ requests[t].analyzer # NoObject
  /\ storage[requests[t].session] # None

\* C11: when requests of sessions with stored catalogs are handled by
\* several threads, the analyzer get_ai_analyzer hands to a request holds the
\* parser built from the storage of the request's own session, and the
\* scenario is resolved against that catalog.
C11_AnalyzerOfOwnSession ==
  \A t \in Threads :
    HoldsAnalyzer(t) =>
      /\ requests[t].analyzer.mind_map_parser.tags = storage[requests[t].session]
      /\ requests[t].pc = "answered" =>
           requests[t].answer.catalog = storage[requests[t].session]

(***************************************************************************)
(* Properties of _fuzzy_match_tag                                          *)
(***************************************************************************)
Matched == pc = "matched"

\* C12: matching a name of the list against the list returns the name
\* itself with the score 1.0.
C12_NameMatchesItself ==
  Matched /\ InSeq(call_args.extracted_tag, call_args.available_tags) =>
    /\ call_value[1] = call_args.extracted_tag
    /\ SameScore(call_value[2], One)

\* the score of one name for a candidate: 1.0 for equal normalized forms, at
\* least 0.9 when one normalized form contains the other, else the similarity
ScoreOf(candidate, name) ==
  Let(NormLower(candidate), LAMBDA ne : Let(NormLower(name), LAMBDA nt :
    IF ne = nt THEN One
    ELSE IF Contains(ne, nt) \/ Contains(nt, ne) THEN MaxScore(Ratio(ne, nt), Frac(9, 10))
    ELSE Ratio(ne, nt)))
\* the highest score over the names, 0.0 for no names
BestScore(candidate, names) ==
  IF names = <<>> THEN Zero
  ELSE LET scores == {ScoreOf(candidate, names[k]) : k \in 1..Len(names)}
       IN  CHOOSE s \in scores : \A x \in scores : Leq(x, s)
\* the first name, in the order of the list, that attains the score
FirstWithScore(candidate, names, score) ==
  names[SetMin({k \in 1..Len(names) : SameScore(ScoreOf(candidate, names[k]), score)})]
\* the score lies in [0, 1] and a returned name is one of the names
ScoreAndNameInRange ==
  /\ Leq(Zero, call_value[2]) /\ Leq(call_value[2], One)
  /\ call_value[1] # None => InSeq(call_value[1], call_args.available_tags)

\* C13 as stated: the call returns the first name attaining the highest
\* score s when s meets the threshold, and (None, s) otherwise, for every
\* candidate, list of names and threshold.
C13_BestMatch ==
  Matched =>
    Let(BestScore(call_args.extracted_tag, call_args.available_tags), LAMBDA best :
      /\ SameScore(call_value[2], best)
      /\ IF Leq(call_args.threshold, best) /\ call_args.available_tags # <<>>
           THEN call_value[1] = FirstWithScore(call_args.extracted_tag, call_args.available_tags, best)
           ELSE call_value[1] = None
      /\ ScoreAndNameInRange)

\* C13, amended: an empty candidate or an empty list of names gives
\* (None, 0.0) without any scoring; otherwise the score returned is the
\* highest score s over the names, and the name returned is the first name
\* attaining s when s meets the threshold and s > 0, and None when s is below
\* the threshold or no name scores above 0.
C13_BestMatchOfNonEmpty ==
  Matched =>
    IF call_args.extracted_tag = <<>> \/ call_args.available_tags = <<>>
      THEN call_value = <<None, Zero>>
      ELSE Let(BestScore(call_args.extracted_tag, call_args.available_tags), LAMBDA best :
             /\ SameScore(call_value[2], best)
             /\ IF Leq(call_args.threshold, best) /\ Less(Zero, best)
                  THEN call_value[1] = FirstWithScore(call_args.extracted_tag,
                                                      call_args.available_tags, best)
                  ELSE call_value[1] = None
             /\ ScoreAndNameInRange)
\* two names tie below 1.0 and above the threshold: the first one is returned
C13_Witness ==
  /\ Matched
  /\ call_args.extracted_tag = <<"P","l","a","n"," ","C">>
  /\ call_args.available_tags = TagNames(CatalogE)
  /\ call_args.threshold = Frac(3, 4)
  /\ SameScore(ScoreOf(call_args.extracted_tag, call_args.available_tags[1]),
               ScoreOf(call_args.extracted_tag, call_args.available_tags[2]))
  /\ call_value[1] = call_args.available_tags[1]
  /\ Less(call_value[2], One)

(***************************************************************************)
(* Properties of _normalize_tag_id                                         *)
(***************************************************************************)
\* C14: normalizing an id that _normalize_tag_id returned gives the same id.
C14_NormalizeIdempotent ==
  pc = "renormalized" => call_value[2] = call_value[1]

\* what is left of an input after removing the characters that are not word
\* characters, uppercasing and dropping a leading 'T'
Remainder(x) ==
  LET cleaned == SelectSeq(Upper(x), LAMBDA c : c \in WordSet)
  IN  IF cleaned # <<>> /\ cleaned[1] = "T" THEN SubSeq(cleaned, 2, Len(cleaned)) ELSE cleaned

\* C15 as stated: an input whose remainder does not parse as an integer
\* yields None.
C15_UnparseableIsNone ==
  pc = "normalized" /\ ~IsIntLiteral(Remainder(call_args.tag_id)) => call_value[1] = None

\* C15, amended: the call always returns; it returns None for the empty
\* input only; an empty remainder yields 'T0000', a remainder that parses
\* yields 'T' and the number in at least four digits, and any other remainder
\* yields 'T' and the remainder itself, padded with zeros to four characters.
C15_UnparseableIsPadded ==
  pc = "normalized" =>
    Let(Remainder(call_args.tag_id), LAMBDA rest :
      /\ call_value[1] = None <=> call_args.tag_id = <<>>
      /\ call_args.tag_id # <<>> =>
           /\ call_value[1][1] = "T" /\ Len(call_value[1]) >= 5
           /\ rest = <<>> => call_value[1] = <<"T","0","0","0","0">>
           /\ rest # <<>> /\ ~IsIntLiteral(rest) => call_value[1] = <<"T">> \o ZFill(rest, 4))
\* 'a' does not parse: the call returns 'T000A'
C15_Witness ==
  /\ pc = "normalized"
  /\ call_args.tag_id = <<"a">>
  /\ ~IsIntLiteral(Remainder(call_args.tag_id))
  /\ call_value[1] = <<"T","0","0","0","A">>

(***************************************************************************)
(* Properties of _extract_tag_ids_from_text                                *)
(***************************************************************************)
Scanned == pc \in {"ids", "names"}
NoDuplicates(seq) == \A i, j \in 1..Len(seq) : i # j => seq[i] # seq[j]
\* the places of the text where an id is written, and the id written there
IdAt(text, i) ==
  Let(MatchFrom(Whole(RTd14), text, i), LAMBDA m :
    IF m.ok THEN NormalizeTagId(SubSeq(text, m.a, m.b - 1)) ELSE None)
\* the id written at each place of the text
IdsWritten(text) == [i \in 1..Len(text) |-> IdAt(text, i)]
\* the matches of all patterns in the order of the scan
RECURSIVE ScanList(_, _)
ScanList(text, p) ==
  IF p > Len(IdPatterns) THEN <<>>
  ELSE FindAll(IdPatterns[p], text) \o ScanList(text, p + 1)
\* the first place of a sequence of ids that holds the id
FirstPlace(ids, id) == SetMin({k \in 1..Len(ids) : ids[k] = id})

\* C16 as stated: the ids returned are normalized, without duplicates, and
\* in the order in which they are first seen in the text.
C16_OrderOfText ==
  Scanned =>
    Let(IdsWritten(ResponseText), LAMBDA written :
      /\ NoDuplicates(found_ids)
      /\ \A i, j \in 1..Len(found_ids) :
           i < j => FirstPlace(written, found_ids[i]) < FirstPlace(written, found_ids[j]))

\* C16, amended: the ids returned are the normalized forms of the matches,
\* without duplicates, in the order in which the scan first finds them:
\* pattern by pattern in the order of the list of patterns, and within one
\* pattern from left to right.
C16_OrderOfScan ==
  Scanned =>
    Let(ScanList(ResponseText, 1), LAMBDA ms :
    Let([k \in 1..Len(ms) |-> NormalizeTagId(ms[k])], LAMBDA ids :
      /\ NoDuplicates(found_ids)
      /\ {found_ids[i] : i \in 1..Len(found_ids)} = {ids[k] : k \in 1..Len(ids)}
      /\ \A i, j \in 1..Len(found_ids) :
           i < j => FirstPlace(ids, found_ids[i]) < FirstPlace(ids, found_ids[j])))
\* the four-digit pattern runs first: T0001 comes before T0009 although the
\* text names T9 first
C16_Witness ==
  /\ Scanned
  /\ ResponseText = <<"T","9",","," ","T","0","0","0","1">>
  /\ found_ids = << <<"T","0","0","0","1">>, <<"T","0","0","0","9">> >>

(***************************************************************************)
(* Properties of the list of resolved tags                                 *)
(***************************************************************************)
\* C17: the resolved tags never hold two entries whose normalized names
\* (white space collapsed, leading 'tag:' and trailing parenthetical removed,
\* case ignored) are equal.
C17_NoNormalizedDuplicates ==
  Parsed =>
    \A i, j \in 1..Len(result.tags) :
      i # j => NormLower(result.tags[i]) # NormLower(result.tags[j])

\* the names the id lookup gives for the ids of a text
NamesById(pt, text) == AppendById(pt, ExtractTagIdsFromText(text), 1, <<>>)
\* the match score of a resolved tag: the score _validate_and_match_tags gave
\* it in STEP 3; 1.0 for a tag added by the id lookup from the reference
\* section or the reasoning; the score of the validation of the reasoning
\* candidates for a tag of the fallback
MatchScore(pt, text, r, tag) ==
  Let(ValidateScored(pt, ExtractedTags(pt, text)).scores, LAMBDA scores3 :
    IF tag \in DOMAIN scores3 THEN scores3[tag]
    ELSE IF InSeq(tag, NamesById(pt, r.mind_map_reference) \o NamesById(pt, r.reasoning))
      THEN One
    ELSE ValidateScored(pt, ExtractTagsFromReasoning(pt, r.reasoning)).scores[tag])

\* C18: the resolved tags are in the order of descending match score, the
\* tags added from the reference section after the sort included.
C18_DescendingScore ==
  Parsed =>
    \A i, j \in 1..Len(result.tags) :
      i < j => Leq(MatchScore(parser_tags, ResponseText, result, result.tags[j]),
                   MatchScore(parser_tags, ResponseText, result, result.tags[i]))

(***************************************************************************)
(* Properties of the fallback on the reasoning text                        *)
(***************************************************************************)
\* the tags of STEP 1 to STEP 5 and of the ids of the reasoning (STEP 6)
EarlierTags(pt, text, r) ==
  Let(ExtractedTags(pt, text), LAMBDA extracted_tags :
  Let(IF extracted_tags # <<>> THEN ValidateAndMatchTags(pt, extracted_tags) ELSE <<>>,
      LAMBDA tags3 :
  Let(IF r.mind_map_reference # <<>>
      THEN AppendById(pt, ExtractTagIdsFromText(r.mind_map_reference), 1, tags3)
      ELSE tags3,
      LAMBDA tags5 :
  IF tags5 = <<>> /\ r.reasoning # <<>>
  THEN AppendById(pt, ExtractTagIdsFromText(r.reasoning), 1, tags5)
  ELSE tags5)))
\* the returned tags are those of _extract_tags_from_reasoning
FallbackUsed ==
  /\ Parsed /\ result.tags # <<>>
  /\ EarlierTags(parser_tags, ResponseText, result) = <<>>
\* the words of the normalized name
TagWords(tag) == SplitWs(NormLower(tag))
\* the name is one that Method 4 accepts for the text
DirectlyMentioned(tag, reasoning_lower) ==
  Let(TagWords(tag), LAMBDA tag_words :
    IF Len(tag_words) >= 2
    THEN 10 * Cardinality({w \in 1..Len(tag_words) :
                  Len(tag_words[w]) > 3 /\ Contains(tag_words[w], reasoning_lower)})
           >= 7 * Len(tag_words)
    ELSE Search(Whole(RCat(<<RWordB, RLit(NormLower(tag)), RWordB>>)), reasoning_lower).ok)
\* Methods 1 to 3 need a quotation mark
NoQuote(text) == \A i \in 1..Len(text) : text[i] \notin {"\"", "'"}

\* C19: when the fallback on the reasoning supplies the tags, every one of them
\* has a catalog name of at least two words
C19_FallbackMultiWord ==
  FallbackUsed => \A i \in 1..Len(result.tags) : Len(TagWords(result.tags[i])) >= 2

\* C19, amended: the fallback supplies tags only when the earlier steps gave
\* none; a name of two or more words is accepted when at least 70% of its
\* words are longer than three characters and occur in the reasoning, a name
\* of one word when it occurs in the reasoning as a whole word
C19_FallbackWholeWord ==
  Parsed =>
    Let(EarlierTags(parser_tags, ResponseText, result), LAMBDA earlier :
      IF earlier # <<>>
      THEN \A i \in 1..Len(result.tags) : InSeq(result.tags[i], earlier)
      ELSE NoQuote(result.reasoning) =>
             \A i \in 1..Len(result.tags) :
               DirectlyMentioned(result.tags[i], Lower(result.reasoning)))
\* the reasoning names the one-word tag 'Billing' and the fallback returns it
C19_Witness ==
  /\ FallbackUsed
  /\ parser_tags = CatalogD
  /\ NoQuote(result.reasoning)
  /\ result.tags = <<CatalogD[1].tag_name>>
  /\ Len(TagWords(CatalogD[1].tag_name)) = 1

(***************************************************************************)
(* Properties of the catalog of MindMapParser                              *)
(***************************************************************************)
\* the names no record may have, once stripped and lowercased
ExcludedNames == {<<>>, <<"n","a","n">>, <<"n","o","n","e">>, <<"n","/","a">>}
IsExcludedName(name) == Lower(Strip(name)) \in ExcludedNames
\* a row of the workbook holds an excluded name in a column the tags are read from
HasExcludedRow(data) ==
  \E s \in 1..Len(data) : \E k \in 1..Len(data[s].rows) :
    \E col \in ColumnSet(data[s].columns) \cap {ColFullTagName, ColTag, ColName} :
      IsExcludedName(PyStr(data[s].rows[k][col]))

\* C20: no record of get_all_tags(), and no tag record of self.tags, has a name
\* that is empty or 'nan', 'none' or 'n/a' once stripped and lowercased
C20_NoSentinelNames ==
  /\ pc \in {"constructed", "tags"} =>
       \A k \in 1..Len(mind_map_parser.tags) :
         ~StartsWith(mind_map_parser.tags[k].key, SheetPrefix) =>
           ~IsExcludedName(mind_map_parser.tags[k].value.tag_name)
  /\ pc = "tags" =>
       \A k \in 1..Len(call_value) : ~IsExcludedName(call_value[k].tag_name)
\* a sheet of the legacy format with the rows ' N/A ' and 'Billing', and a sheet
\* of the organized format with the rows NaN and 'Billing': one record each
C20_Witness ==
  /\ pc = "tags"
  /\ Len(call_args.data_dict) = 1
  /\ HasExcludedRow(call_args.data_dict)
  /\ Len(call_args.data_dict[1].rows) = 2
  /\ ~IsOrganizedFormat(call_args.data_dict[1].columns)
  /\ PyStr(call_args.data_dict[1].rows[1][ColTag]) = <<" ","N","/","A"," ">>
  /\ Len(call_value) = 1
  /\ call_value[1].tag_name = <<"B","i","l","l","i","n","g">>
C20_WitnessOrganized ==
  /\ pc = "tags"
  /\ Len(call_args.data_dict) = 1
  /\ call_args.data_dict[1].columns = <<ColTagID, ColFullTagName>>
  /\ Len(call_args.data_dict[1].rows) = 2
  /\ call_args.data_dict[1].rows[1][ColFullTagName] = NaNCell
  /\ Len(call_value) >= 1
  /\ call_value[1].tag_name = <<"B","i","l","l","i","n","g">>

(***************************************************************************)
(* Properties of _call_gemini: its invocations of generate_content         *)
(***************************************************************************)
\* C21: one scenario submission invokes the model at most once; _call_gemini
\* makes a single attempt and no retry, whatever the attempt's outcome
C21_AtMostOneInvocation == Len(calls) <= 1

\* _call_gemini has returned or raised
CallEnded == pc \in {"parse", "analyze_except", "returned"}
\* the invocations are the initial request and then the retries 1, 2, ... in
\* this order, at most six in all; a retry follows only a blocked initial
\* request under safety settings
RetriesInOrder ==
  /\ \A i \in 1..Len(calls) : calls[i].attempt = i - 1
  /\ Len(calls) <= LastRetry + 1
  /\ Len(calls) > 1 => safety_settings
\* a step of a retry: a response that validates is returned and ends the
\* call, another outcome leads to the next retry, after the fifth to the
\* SAFETY_FILTER_BLOCKED exception
RetryOutcome ==
  [][pc = "retry" /\ pc' # "hung" =>
       Let(IF last_attempt'.k = "raise" THEN None ELSE ExtractAndValidateResponse(last_attempt'),
           LAMBDA retry_text :
         IF retry_text # None THEN pc' = "parse" /\ ai_response' = retry_text
         ELSE IF retry < LastRetry THEN pc' = "retry" /\ retry' = retry + 1
         ELSE pc' = "gemini_except" /\ exc'.msg = MsgSafetyFilterBlocked)]_vars
\* once _call_gemini has ended no invocation is made
NoCallAfterEnd == [][CallEnded => calls' = calls]_vars
\* C23: after a blocked initial response under safety settings the retries
\* run in the order 1 to 5, the first retry that validates ends the call with
\* its text, a retry that raises or fails validation leads to the next, five
\* failures raise SAFETY_FILTER_BLOCKED; a call makes at most 6 invocations
\* and always ends
C23_RetriesInOrderAndCallEnds ==
  /\ []RetriesInOrder
  /\ RetryOutcome
  /\ NoCallAfterEnd
  /\ (pc = "call_gemini") ~> CallEnded

\* C24: every invocation, the retries included, runs under the 25 second
\* guard, and no invocation leaves the request waiting
C24_EveryInvocationGuarded ==
  /\ \A i \in 1..Len(calls) : calls[i].guarded
  /\ pc # "hung"

\* C25: two consecutive invocations of one AIAnalyzer are at least
\* min_request_interval apart, and the first is made no earlier than 5 seconds
\* after the analyzer's construction
C25_MinimumInterval ==
  /\ calls # <<>> => calls[1].at >= FirstRequestDelay
  /\ \A i \in 2..Len(calls) : calls[i].at - calls[i - 1].at >= MinRequestInterval

(***************************************************************************)
(* Properties of the error analyze_scenario returns for a safety block     *)
(***************************************************************************)
\* _call_gemini raised after the fifth retry
RetriesExhausted ==
  /\ retry = LastRetry /\ last_attempt.k \notin {"not_called", "slow"}
  /\ RetryStep(LastRetry, last_attempt).to = "raise"
\* the initial response was a safety block and there are no safety settings
BlockedWithoutSettings ==
  /\ retry = 0 /\ ~safety_settings
  /\ last_attempt.k = "response" /\ last_attempt.candidates
  /\ IsSafetyBlock(last_attempt.finish_reason)
OtherErrors == {"Invalid Gemini API Key", "Gemini API Rate Limit Exceeded", "Gemini Model Not Available"}
\* C27: when the model call ends as a safety block (the five retries are
\* exhausted, or the response is blocked and there are no safety settings),
\* analyze_scenario returns the error 'Content Blocked by Safety Filters', not
\* the error of an invalid key, of the rate limit or of a missing model
C27_SafetyBlockReported ==
  pc = "returned" /\ (RetriesExhausted \/ BlockedWithoutSettings) =>
    /\ IsErrorResult(returned)
    /\ returned.error = "Content Blocked by Safety Filters"
    /\ returned.error \notin OtherErrors
\* a response blocked without safety settings was reported as a safety block
C27_Witness ==
  /\ pc = "returned" /\ BlockedWithoutSettings
  /\ Len(calls) = 1
  /\ returned.error = "Content Blocked by Safety Filters"
\* the fifth retry raised an error of the rate limit, and the safety block was reported
C27_WitnessExhausted ==
  /\ pc = "returned" /\ RetriesExhausted /\ last_attempt.k = "raise"
  /\ Contains(<<"4","2","9">>, last_attempt.msg)
  /\ Len(calls) = LastRetry + 1
  /\ returned.error = "Content Blocked by Safety Filters"


(***************************************************************************)
(* Properties of the server: the catalog and the analyzer of a session     *)
(***************************************************************************)
\* the storage file of the session is older than 24 hours
Expired(s) == storage[s].exists /\ clock - storage[s].timestamp > Day
\* C22: while the server runs, a storage file whose timestamp is more than 24
\* hours old is eventually removed
C22_ExpiredFileRemoved ==
  \A s \in Sessions : Expired(s) ~> ~storage[s].exists

\* C26: an analyze request that follows an analyze request of the same
\* session, with no upload of the session in between, is given the AIAnalyzer
\* object the earlier one was given
C26_AnalyzerReused ==
  \A s \in Sessions :
    requests[s].pc = "analyzer_returned" /\ requests[s].knows.analyzer # 0 =>
      requests[s].analyzer.obj = requests[s].knows.analyzer

\* the analyze request of the session has been answered
AnalyzeAnswered(s) == requests[s].route = "analyze" /\ requests[s].pc = "answered"
\* a step that invokes the model is a step of an analyze request whose
\* session has a catalog loaded and whose scenario has a character that is no
\* white space
InvocationGuarded ==
  [][calls' # calls =>
       \E s \in Sessions :
         /\ requests[s].route = "analyze" /\ InFlight(s) /\ requests'[s].pc = "answered"
         /\ requests[s].loaded /\ Strip(requests[s].scenario) # <<>>
         /\ Len(calls') = Len(calls) + 1]_vars
\* an analyze request without a catalog or with a blank scenario is answered
\* with an error: errors(s) are the errors it may be answered with
AnsweredWithError(errors(_)) ==
  \A s \in Sessions :
    AnalyzeAnswered(s) /\ ~(requests[s].loaded /\ Strip(requests[s].scenario) # <<>>) =>
      /\ requests[s].answer.status \in {400, 500}
      /\ requests[s].answer.error \in errors(s)
ErrorsOfClaim(s) == {"Please upload a mind map first", "Please provide a customer scenario"}
\* without a catalog the error is 'Please upload a mind map first'; with one
\* and a blank scenario it is the sentence of the language of the request,
\* or 'AI Analysis Failed' when there is no GEMINI_API_KEY, or 'Please upload
\* a mind map first' when the global parser was cleared by another request
ErrorsOfRoute(s) ==
  IF ~requests[s].loaded THEN {"Please upload a mind map first"}
  ELSE {BlankScenarioResult(requests[s].language).error, "Please upload a mind map first"}
       \cup (IF env.api_key THEN {} ELSE {"AI Analysis Failed"})
C28_WitnessInvoked ==
  \E s \in Sessions :
    /\ AnalyzeAnswered(s) /\ requests[s].loaded /\ requests[s].scenario = ScenarioFailed
    /\ requests[s].answer = AnalyzeAnswer(TRUE) /\ Len(calls) = 1

\* C29: after an upload of the session was answered with success its storage
\* file exists, and a check-mindmap the session sends before it uploads again
\* and before its file is cleaned up reports loaded with the tags of the
\* upload answer
C29_CheckReportsUploadedTags ==
  \A s \in Sessions :
    /\ told[s].tags # 0 => storage[s].exists
    /\ requests[s].route = "check" /\ requests[s].pc = "answered" /\ requests[s].knows.tags # 0 =>
         /\ requests[s].answer.loaded
         /\ requests[s].answer.tags_count = requests[s].knows.tags

\* C30: when an upload is answered with an error, the storage file of the
\* session is what it was when the request arrived
C30_RejectedUploadKeepsCatalog ==
  [][\A s \in Sessions :
       /\ requests[s].route = "upload" /\ InFlight(s)
       /\ requests'[s].pc = "answered" /\ requests'[s].answer.status # 200
       => storage'[s] = requests[s].before]_vars

=============================================================================
